---- MODULE Spec2Model ----
(***************************************************************************)
(* A model of the stratum monitor: the job comparator's live cache and     *)
(* primary matcher (src/src/analysis/job_comparator.py), the websocket     *)
(* collector's connect loop (src/src/collectors/base_client.py) and the    *)
(* orchestrator's message handler (src/main.py).                           *)
(*                                                                         *)
(* Time is an integer number of clock units; one unit stands for 100 s of  *)
(* the wall clock read by time.time().  Strings that the code only tests   *)
(* for equality and truthiness are short strings; "" is the falsy string.  *)
(***************************************************************************)
EXTENDS Integers, Sequences, FiniteSets, TLC

VARIABLES
    \* ---- JobComparator (job_comparator.py) ----
    clock,              \* the value time.time() returns now
    recent_jobs,        \* self.recent_jobs: feed -> list of cached jobs
    job_matches,        \* self.job_matches: list of match records
    pools_seen,         \* self.pools_seen
    heights_seen,       \* self.heights_seen
    processing_stats,   \* self.processing_stats (the two counters)
    returned,           \* what the last process_job call returned
    call_log,           \* history: the jobs process_job accepted, in call order
    analyzer_jobs,      \* per analyzer: the number of jobs add_job has given it
    last_call,          \* history: the job of the last process_job call
    \* ---- BaseStratumClient (base_client.py), one collector ----
    pc,                 \* where the connect() task is suspended
    should_run,         \* self.should_run
    websocket,          \* self.websocket: "none", or the last socket, "open" or "closed"
    reconnect_interval, \* self.reconnect_interval
    current_interval,   \* the local current_interval of connect()
    connection_attempts,\* self.connection_attempts
    messages_received,  \* self.messages_received
    trace,              \* history: what the connect() task did, in order
    \* ---- StratumMonitorApp._handle_message (main.py) and the database ----
    frames,             \* history: the enriched messages handed to the handler
    handler,            \* per collector: the handler call in flight, if any
    raw_messages,       \* the raw_messages collection (ids of the frames)
    normalized_jobs,    \* the normalized_jobs collection
    handed,             \* history: what was passed to comparator.process_job
    \* ---- BaseStratumClient._process_messages (base_client.py), per feed ----
    lp,                 \* per collector: where the receive loop is, and its counter
    inflight,           \* per collector: the handler calls started and not finished
    rx,                 \* history, per collector: the frames read from the socket
    hlog,               \* history: handler starts, ends and process_job calls
    \* ---- StatsCalculator (stats_calculator.py) ----
    snow,               \* the value datetime.utcnow() returns now
    by_service,         \* job_stats["by_service"]: feed -> timestamps of its jobs
    total_jobs,         \* job_stats["total_jobs"]
    job_agreements,     \* agreement_stats["job_agreements"]
    agreement_counts,   \* agreement_stats["agreement_counts"]
    agreement_rates,    \* agreement_stats["agreement_rates"]
    \* ---- StratumMonitorApp.start/stop (main.py) and routes.py ----
    app_pc,             \* where start() is
    running,            \* self.running
    client_run,         \* per collector: "absent", or its should_run as "running"/"stopped"
    tasks,              \* the five tasks of start()
    db_state,           \* the database connection: "new", "open" or "closed"
    api_comparator,     \* the module global `comparator` of routes.py
    response,           \* the last answer of GET /api/stats
    \* ---- DatabaseManager.cleanup_old_data (db.py) ----
    dnow,               \* the day datetime.utcnow() falls on
    initialized,        \* self.db is set
    collections,        \* the four collections: name -> days of its documents
    inserted,           \* history: name -> days of all documents ever inserted
    cutoffs,            \* history: the cutoffs of the cleanup calls so far
    \* ---- MempoolSpaceClient (mempool_client.py) ----
    subscription_sent,  \* self.subscription_sent
    entered,            \* history: the connections on which _process_messages was entered
    subscribed,         \* history: the sends of mining.subscribe, with their connection
    \* ---- the mappers' fallback mapping (src/src/normalizers) ----
    map_in,             \* the feed and the parsed message of the last map() call
    map_out,            \* the job fields of what it returned
    \* ---- the message path into TimingAnalyzer and RegionAnalyzer ----
    tframes,            \* history: the enriched messages of the collectors, in receipt order
    thandler,           \* per collector: the handler call in flight, if any
    service_job_times,  \* TimingAnalyzer.service_job_times: feed -> list of job timings
    inter_arrival,      \* TimingAnalyzer.inter_arrival_stats: feed -> its "times" list
    timing_matches,     \* TimingAnalyzer.job_matches
    propagation_stats,  \* TimingAnalyzer.propagation_stats: source pair -> its "times" list
    region_jobs,        \* RegionAnalyzer.region_jobs: feed -> region -> list of job data
    service_regions,    \* RegionAnalyzer.region_stats["service_regions"]
    propagation_by_region, \* RegionAnalyzer.region_stats["propagation_by_region"]
    \* ---- the event loop's turns around process_job and get_statistics ----
    turn_handler,       \* per collector: where its _handle_message call is suspended
    in_process,         \* per collector: the process_job call suspended inside, if any
    snapshot,           \* what the last get_statistics() call returned
    observers,          \* history: the tasks that have read the comparator's state
    saw_partial,        \* history: a reader ran while a process_job call was suspended
    \* ---- StratumMonitorApp.stop() against the handlers in flight ----
    stop_pc,            \* where stop() is: "none", the client it is closing, or "done"
    sockets,            \* per collector: its websocket, "open", "closing" or "closed"
    stop_running,       \* per collector: its should_run
    db_client,          \* the database client: "open" or "closed"
    shut_handler,       \* per collector: where its _handle_message call is suspended
    late_ops            \* history: what handlers did after the database was closed

cmpVars == <<clock, recent_jobs, job_matches, pools_seen, heights_seen,
             processing_stats, returned, call_log, analyzer_jobs, last_call>>

clientVars == <<pc, should_run, websocket, reconnect_interval, current_interval,
                connection_attempts, messages_received, trace>>

appVars == <<frames, handler, raw_messages, normalized_jobs, handed>>

loopVars == <<lp, inflight, rx, hlog>>

statsVars == <<snow, by_service, total_jobs, job_agreements, agreement_counts,
               agreement_rates>>

orchVars == <<app_pc, running, client_run, tasks, db_state, api_comparator, response>>

dbVars == <<dnow, initialized, collections, inserted, cutoffs>>

mempoolVars == <<subscription_sent, entered, subscribed>>

mapperVars == <<map_in, map_out>>

analyzerVars == <<tframes, thandler, service_job_times, inter_arrival,
                  timing_matches, propagation_stats, region_jobs, service_regions,
                  propagation_by_region>>

midVars == <<loopVars, statsVars, orchVars, dbVars, mempoolVars, mapperVars>>

turnVars == <<turn_handler, in_process, snapshot, observers, saw_partial>>

shutVars == <<stop_pc, sockets, stop_running, db_client, shut_handler, late_ops>>

lateVars == <<analyzerVars, turnVars, shutVars>>

(* The variables of the components added after the first three. *)
extVars == <<midVars, lateVars>>

vars == <<clock, recent_jobs, job_matches, pools_seen, heights_seen,
          processing_stats, returned, call_log, analyzer_jobs, last_call,
          pc, should_run, websocket, reconnect_interval, current_interval,
          connection_attempts, messages_received, trace,
          frames, handler, raw_messages, normalized_jobs, handed,
          lp, inflight, rx, hlog,
          snow, by_service, total_jobs, job_agreements, agreement_counts,
          agreement_rates,
          app_pc, running, client_run, tasks, db_state, api_comparator, response,
          dnow, initialized, collections, inserted, cutoffs,
          subscription_sent, entered, subscribed,
          map_in, map_out,
          tframes, thandler, service_job_times, inter_arrival, timing_matches,
          propagation_stats, region_jobs, service_regions, propagation_by_region,
          turn_handler, in_process, snapshot, observers, saw_partial,
          stop_pc, sockets, stop_running, db_client, shut_handler, late_ops>>

-----------------------------------------------------------------------------
(* Bounds of the model. *)

MaxJobs == 3        \* process_job calls in one behaviour
MaxClock == 4       \* the clock stops advancing here
TimeWindow == 2     \* JobComparator.time_window, in clock units
WindowSize == 1     \* JobComparator.window_size

MaxAttempts == 3    \* socket-open attempts of one collector in one behaviour
MaxFrames == 2      \* frames one collector receives in one behaviour
MaxHandled == 2     \* frames handed to the message handler in one behaviour
MaxRx == 3          \* frames the receive loops read in one behaviour, all feeds together

MaxStatJobs == 5    \* add_job calls in one behaviour
MaxAgreements == 2  \* agreements in the log at one time
MaxStatClock == 2   \* the statistics clock stops advancing here

MaxApiJobs == 3     \* jobs the application's comparator processes in one behaviour

MaxTimed == 3       \* frames the collectors receive on the path into the analyzers
MaxTurnJobs == 3    \* process_job calls in one behaviour of the event loop's turns
MaxReadJobs == 3    \* process_job calls in one behaviour of the readers
MaxShutJobs == 2    \* frames handled in one behaviour of the shutdown
MaxTimedClock == 2  \* the clock stops advancing here on that path

MaxDay == 2         \* the day clock stops advancing here
MaxKeep == 2        \* the largest days_to_keep passed to cleanup_old_data

(* Constants of the matcher. *)

ScoreJobIdPool == 10
ScorePrevHash == 8
ScoreHeight == 5
ScoreField == 2
MatchThreshold == 10

(* Constants of the collector.  Intervals are in units of 1/128 s, in      *)
(* which every interval the backoff can produce is an integer: 5.0 s is    *)
(* 640, 60.0 s is 7680, and the factor 1.5 is 3/2.                         *)

InitialInterval == 640
MaxInterval == 7680
FactorNum == 3
FactorDen == 2

(* The window of the statistics, in units of the statistics clock: one     *)
(* unit stands for the 3600 s of the default time_window.                   *)

StatsWindow == 1

-----------------------------------------------------------------------------
(* The three feeds, in the insertion order of the recent_jobs dict. *)

SourceOrder == <<"miningpool.observer", "stratum.work", "mempool.space">>

Sources == {SourceOrder[i] : i \in 1..Len(SourceOrder)}

(* A normalized job.  height = 0 is the falsy default the schema gives a    *)
(* job without a height; processed_at = 0 is a job not yet stamped.         *)
MkJob(src, id, pool, prev, height, version, bits, time) ==
    [source |-> src, timestamp |-> "ts", job_id |-> id, mining_pool |-> pool,
     prev_block_hash |-> prev, height |-> height, version |-> version,
     bits |-> bits, time |-> time, processed_at |-> 0]

(* The job contents used as inputs: a base job; a job with the same job_id *)
(* and pool and nothing else in common; a job sharing only version, bits   *)
(* and time with the base.                                                 *)
ShapeA == <<"j1", "p1", "h1", 1, "v1", "b1", 1>>
ShapeB == <<"j1", "p1", "h2", 2, "v2", "b2", 2>>
ShapeC == <<"j2", "p2", "h3", 0, "v1", "b1", 1>>

JobShapes == {ShapeA, ShapeB, ShapeC}

MkShaped(src, t) == MkJob(src, t[1], t[2], t[3], t[4], t[5], t[6], t[7])

Abs(x) == IF x < 0 THEN -x ELSE x

Min(S) == CHOOSE x \in S : \A y \in S : x <= y

-----------------------------------------------------------------------------
(* JobComparator: the primary matcher. *)

(* Score that counts prev_block_hash only for a processed job with a       *)
(* height.                                                                 *)
Score_PrevHashNeedsHeight(job, other_job) ==
      (IF job.job_id = other_job.job_id /\ job.mining_pool = other_job.mining_pool
       THEN ScoreJobIdPool ELSE 0)
    + (IF job.height # 0 /\ job.prev_block_hash = other_job.prev_block_hash
       THEN ScorePrevHash ELSE 0)
    + (IF job.height # 0 /\ job.height = other_job.height THEN ScoreHeight ELSE 0)
    + (IF job.version = other_job.version THEN ScoreField ELSE 0)
    + (IF job.bits = other_job.bits THEN ScoreField ELSE 0)
    + (IF job.time = other_job.time THEN ScoreField ELSE 0)

(* The match score of the processed job against one cached job. *)
Score(job, other_job) ==
      (IF job.job_id = other_job.job_id /\ job.mining_pool = other_job.mining_pool
       THEN ScoreJobIdPool ELSE 0)
    + (IF job.prev_block_hash = other_job.prev_block_hash THEN ScorePrevHash ELSE 0)
    + (IF job.height # 0 /\ job.height = other_job.height THEN ScoreHeight ELSE 0)
    + (IF job.version = other_job.version THEN ScoreField ELSE 0)
    + (IF job.bits = other_job.bits THEN ScoreField ELSE 0)
    + (IF job.time = other_job.time THEN ScoreField ELSE 0)

(* MatchIn with the threshold test written "score > 10". *)
MatchIn_Strict(job, jobs) ==
    LET hits == {i \in 1..Len(jobs) : Score(job, jobs[i]) > MatchThreshold}
    IN  IF hits = {} THEN <<>> ELSE <<jobs[Min(hits)]>>

(* MatchIn that takes the last cached job reaching the threshold. *)
MatchIn_Last(job, jobs) ==
    LET hits == {i \in 1..Len(jobs) : Score(job, jobs[i]) >= MatchThreshold}
    IN  IF hits = {} THEN <<>>
        ELSE <<jobs[CHOOSE i \in hits : \A k \in hits : k <= i]>>

(* The inner loop over one feed's cache: the first cached job, in list     *)
(* order, whose score reaches the threshold (then break), or nothing.      *)
MatchIn(job, jobs) ==
    LET hits == {i \in 1..Len(jobs) : Score(job, jobs[i]) >= MatchThreshold}
    IN  IF hits = {} THEN <<>> ELSE <<jobs[Min(hits)]>>

(* The outer loop over recent_jobs.items(), skipping the job's own feed. *)
RECURSIVE MatchesFrom(_, _, _)
MatchesFrom(job, cache, i) ==
    IF i > Len(SourceOrder) THEN <<>>
    ELSE (IF SourceOrder[i] = job.source THEN <<>>
          ELSE MatchIn(job, cache[SourceOrder[i]]))
         \o MatchesFrom(job, cache, i + 1)

SourcesOf(matches) == {matches[i].source : i \in 1..Len(matches)}

(* CalculatePropagationTimes without the abs(). *)
CalculatePropagationTimes_Signed(primary_job, matches) ==
    IF primary_job.processed_at = 0 THEN <<>>
    ELSE [s \in SourcesOf(matches) |->
            LET last == CHOOSE i \in 1..Len(matches) :
                            /\ matches[i].source = s
                            /\ \A k \in 1..Len(matches) :
                                   matches[k].source = s => k <= i
                 match_time == matches[last].processed_at
            IN  IF match_time = 0 THEN -1
                ELSE match_time - primary_job.processed_at]

(* _calculate_propagation_times: a dict keyed by the source of each match. *)
(* A falsy primary time gives the empty dict; a falsy match time gives     *)
(* None, written -1 here.                                                  *)
CalculatePropagationTimes(primary_job, matches) ==
    IF primary_job.processed_at = 0 THEN <<>>
    ELSE [s \in SourcesOf(matches) |->
            LET last == CHOOSE i \in 1..Len(matches) :
                            /\ matches[i].source = s
                            /\ \A k \in 1..Len(matches) :
                                   matches[k].source = s => k <= i
                 match_time == matches[last].processed_at
            IN  IF match_time = 0 THEN -1
                ELSE Abs(match_time - primary_job.processed_at)]

(* The list slice job_matches[-window_size:] taken when the list is longer *)
(* than window_size.                                                       *)
TrimMatches(ms) ==
    IF Len(ms) > WindowSize
    THEN IF WindowSize = 0 THEN ms \* ms[-0:] is the whole list
         ELSE SubSeq(ms, Len(ms) - WindowSize + 1, Len(ms))
    ELSE ms

(* _find_matching_jobs: the matches, and the match history after the call. *)
FindMatchingJobs(job, cache) == MatchesFrom(job, cache, 1)

RecordMatch(job, matches, history, now) ==
    IF matches # <<>>
    THEN TrimMatches(Append(history,
            [timestamp |-> now, primary_job |-> job, matches |-> matches,
             propagation_times |-> CalculatePropagationTimes(job, matches)]))
    ELSE history

(* CleanOldJobs that filters the first feed's list only. *)
CleanOldJobs_FirstFeedOnly(cache, now) ==
    [s \in Sources |->
        IF s = SourceOrder[1]
        THEN SelectSeq(cache[s], LAMBDA j : j.processed_at >= now - TimeWindow)
        ELSE cache[s]]

(* _clean_old_jobs: every feed's list is filtered against now - window. *)
CleanOldJobs(cache, now) ==
    [s \in Sources |->
        SelectSeq(cache[s], LAMBDA j : j.processed_at >= now - TimeWindow)]

(* The analyzers a comparator has by default: lines 33-48. *)
Analyzers == {"timing", "region", "stats"}

NoCall == [source |-> "-"]

(* process_job that counts the job before it looks at the source. *)
ProcessJob_CountsBeforeCheck(job) ==
    IF job.source = "" \/ job.source \notin Sources
    THEN /\ returned' = <<>>
         /\ last_call' = job
         /\ processing_stats' = [processing_stats EXCEPT !.jobs_processed = @ + 1]
         /\ UNCHANGED <<clock, recent_jobs, job_matches, pools_seen,
                        heights_seen, call_log, analyzer_jobs>>
    ELSE LET stamped == [job EXCEPT !.processed_at = clock]
             appended == [recent_jobs EXCEPT ![job.source] = Append(@, stamped)]
             cleaned == CleanOldJobs(appended, clock)
             matches == FindMatchingJobs(stamped, cleaned)
         IN  /\ pools_seen' = IF job.mining_pool # "" THEN pools_seen \cup {job.mining_pool}
                              ELSE pools_seen
             /\ heights_seen' = IF job.height # 0 THEN heights_seen \cup {job.height}
                                ELSE heights_seen
             /\ recent_jobs' = cleaned
             /\ job_matches' = RecordMatch(stamped, matches, job_matches, clock)
             /\ processing_stats' =
                    [jobs_processed |-> processing_stats.jobs_processed + 1,
                     matches_found |-> processing_stats.matches_found
                                       + (IF matches # <<>> THEN 1 ELSE 0)]
             /\ analyzer_jobs' = [a \in Analyzers |-> analyzer_jobs[a] + 1]
             /\ returned' = matches
             /\ call_log' = Append(call_log, stamped)
             /\ last_call' = job
             /\ UNCHANGED clock

(* process_job(job), the whole call.  No await inside it suspends, so the  *)
(* time.time() of line 100 and the one of _clean_old_jobs read the same    *)
(* clock unit.  Every enabled analyzer is given the accepted job.          *)
ProcessJob(job) ==
    IF job.source = "" \/ job.source \notin Sources
    THEN /\ returned' = <<>>
         /\ last_call' = job
         /\ UNCHANGED <<clock, recent_jobs, job_matches, pools_seen,
                        heights_seen, processing_stats, call_log, analyzer_jobs>>
    ELSE LET stamped == [job EXCEPT !.processed_at = clock]
             appended == [recent_jobs EXCEPT ![job.source] = Append(@, stamped)]
             cleaned == CleanOldJobs(appended, clock)
             matches == FindMatchingJobs(stamped, cleaned)
         IN  /\ pools_seen' = IF job.mining_pool # "" THEN pools_seen \cup {job.mining_pool}
                              ELSE pools_seen
             /\ heights_seen' = IF job.height # 0 THEN heights_seen \cup {job.height}
                                ELSE heights_seen
             /\ recent_jobs' = cleaned
             /\ job_matches' = RecordMatch(stamped, matches, job_matches, clock)
             /\ processing_stats' =
                    [jobs_processed |-> processing_stats.jobs_processed + 1,
                     matches_found |-> processing_stats.matches_found
                                       + (IF matches # <<>> THEN 1 ELSE 0)]
             /\ analyzer_jobs' = [a \in Analyzers |-> analyzer_jobs[a] + 1]
             /\ returned' = matches
             /\ call_log' = Append(call_log, stamped)
             /\ last_call' = job
             /\ UNCHANGED clock

(* The wall clock advances between calls. *)
Tick ==
    /\ clock < MaxClock
    /\ clock' = clock + 1
    /\ UNCHANGED <<recent_jobs, job_matches, pools_seen, heights_seen,
                   processing_stats, returned, call_log, analyzer_jobs, last_call>>

-----------------------------------------------------------------------------
(* BaseStratumClient: connect(), _process_messages() and stop().  The task *)
(* is suspended only where the code awaits: in websockets.connect          *)
(* ("connecting"), at the next frame of the async for ("receiving"), in    *)
(* the exit of the async with block ("closing") and in asyncio.sleep       *)
(* ("sleeping"); what runs between two awaits is one step.                 *)

Event(type, d) == [type |-> type, d |-> d]

Opens == Cardinality({i \in 1..Len(trace) : trace[i].type = "attempt"})

ClientInit ==
    /\ pc = "idle"
    /\ should_run = TRUE
    /\ websocket = "none"
    /\ reconnect_interval = InitialInterval
    /\ current_interval = InitialInterval
    /\ connection_attempts = 0
    /\ messages_received = 0
    /\ trace = <<>>

(* The test of "while self.should_run" and what follows it up to the next  *)
(* await: the next websockets.connect, or, out of the loop, the sleep of   *)
(* line 90.  tr is the history so far, interval the local current_interval. *)
LoopTop(tr, interval) ==
    IF should_run
    THEN /\ Opens < MaxAttempts
         /\ pc' = "connecting"
         /\ trace' = Append(tr, Event("attempt", 0))
    ELSE /\ pc' = "sleeping"
         /\ trace' = Append(tr, Event("sleep", interval))

(* connect() is entered: lines 62-63, then the loop. *)
Connect ==
    /\ pc = "idle"
    /\ connection_attempts' = connection_attempts + 1
    /\ current_interval' = reconnect_interval
    /\ LoopTop(trace, reconnect_interval)
    /\ UNCHANGED <<should_run, websocket, reconnect_interval, messages_received>>
    /\ UNCHANGED <<cmpVars, appVars, extVars>>

(* websockets.connect succeeded: lines 70-78, up to the first frame. *)
ConnectOK ==
    /\ pc = "connecting"
    /\ websocket' = "open"
    /\ reconnect_interval' = InitialInterval
    /\ pc' = "receiving"
    /\ trace' = Append(trace, Event("connected", 0))
    /\ UNCHANGED <<should_run, current_interval, connection_attempts,
                   messages_received>>
    /\ UNCHANGED <<cmpVars, appVars, extVars>>

(* ConnectFail that leaves the loop on an exception. *)
ConnectFail_GiveUp ==
    /\ pc = "connecting"
    /\ pc' = "sleeping"
    /\ trace' = Append(Append(trace, Event("fail", 0)),
                       Event("sleep", current_interval))
    /\ UNCHANGED <<should_run, websocket, reconnect_interval, current_interval,
                   connection_attempts, messages_received>>
    /\ UNCHANGED <<cmpVars, appVars, extVars>>

(* websockets.connect raised: lines 80-86, then the loop again. *)
ConnectFail ==
    /\ pc = "connecting"
    /\ LoopTop(Append(trace, Event("fail", 0)), current_interval)
    /\ UNCHANGED <<should_run, websocket, reconnect_interval, current_interval,
                   connection_attempts, messages_received>>
    /\ UNCHANGED <<cmpVars, appVars, extVars>>

(* One frame of "async for message in self.websocket": lines 104-106. *)
RecvFrame ==
    /\ pc = "receiving"
    /\ websocket = "open"
    /\ messages_received < MaxFrames
    /\ messages_received' = messages_received + 1
    /\ UNCHANGED <<pc, should_run, websocket, reconnect_interval,
                   current_interval, connection_attempts, trace>>
    /\ UNCHANGED <<cmpVars, appVars, extVars>>

(* The connection is closed, by the peer or by stop(): the async for ends  *)
(* or raises ConnectionClosed, and the async with block closes the socket. *)
Lost ==
    /\ pc = "receiving"
    /\ websocket' = "closed"
    /\ pc' = "closing"
    /\ trace' = Append(trace, Event("lost", 0))
    /\ UNCHANGED <<should_run, reconnect_interval, current_interval,
                   connection_attempts, messages_received>>
    /\ UNCHANGED <<cmpVars, appVars, extVars>>

(* After the async with block: lines 80-86, then the loop again. *)
AfterTry ==
    /\ pc = "closing"
    /\ LoopTop(trace, current_interval)
    /\ UNCHANGED <<should_run, websocket, reconnect_interval, current_interval,
                   connection_attempts, messages_received>>
    /\ UNCHANGED <<cmpVars, appVars, extVars>>

GrowInterval(interval) ==
    LET grown == (interval * FactorNum) \div FactorDen
    IN  IF grown < MaxInterval THEN grown ELSE MaxInterval

(* asyncio.sleep returned: lines 93-97, and connect() returns. *)
Wake ==
    /\ pc = "sleeping"
    /\ current_interval' = GrowInterval(current_interval)
    /\ reconnect_interval' = GrowInterval(current_interval)
    /\ pc' = "done"
    /\ UNCHANGED <<should_run, websocket, connection_attempts,
                   messages_received, trace>>
    /\ UNCHANGED <<cmpVars, appVars, extVars>>

(* stop(), called by another task: lines 135-137. *)
Stop ==
    /\ should_run
    /\ should_run' = FALSE
    /\ websocket' = IF websocket = "open" THEN "closed" ELSE websocket
    /\ UNCHANGED <<pc, reconnect_interval, current_interval,
                   connection_attempts, messages_received, trace>>
    /\ UNCHANGED <<cmpVars, appVars, extVars>>

ClientNext ==
    \/ Connect \/ ConnectOK \/ ConnectFail \/ RecvFrame
    \/ Lost \/ AfterTry \/ Wake \/ Stop


-----------------------------------------------------------------------------
(* The normalization layer and the orchestrator's message handler.  An    *)
(* enriched message is described by what its mapper makes of it:           *)
(*   "notify"        a mining.notify the mapper turns into a full job;     *)
(*   "other"         a message that leaves job_id at its empty default;    *)
(*   "bad_source",                                                         *)
(*   "bad_timestamp" a configured field mapping that overwrites the field  *)
(*                   with a value it does not find (None);                 *)
(*   "map_error"     the mapper raises inside and returns the minimal      *)
(*                   record without a job_id key.                          *)

FrameKinds == {"notify", "other", "bad_source", "bad_timestamp", "map_error"}

MkFrame(service, kind, shape) ==
    [service_name |-> service, kind |-> kind, shape |-> shape]

(* Mapper.map(data): the same in the three mappers. *)
MapFrame(frame) ==
    LET job == MkShaped(frame.service_name, frame.shape)
    IN  CASE frame.kind = "notify" -> job
          [] frame.kind = "other" -> [job EXCEPT !.job_id = ""]
          [] frame.kind = "bad_source" -> [job EXCEPT !.source = ""]
          [] frame.kind = "bad_timestamp" -> [job EXCEPT !.timestamp = ""]
          [] frame.kind = "map_error" ->
                [source |-> frame.service_name, timestamp |-> "ts"]

(* validate that does not require job_id. *)
Validate_NoJobId(job) ==
    \A field \in {"source", "timestamp"} :
        field \in DOMAIN job /\ job[field] # ""

(* UnifiedJobSchema.validate(job). *)
Validate(job) ==
    \A field \in {"source", "timestamp", "job_id"} :
        field \in DOMAIN job /\ job[field] # ""

(* DataNormalizer.normalize(message): <<job>>, or <<>> for an absent       *)
(* result.                                                                 *)
Normalize(frame) ==
    IF frame.service_name \notin Sources THEN <<>>
    ELSE IF Validate(MapFrame(frame)) THEN <<MapFrame(frame)>> ELSE <<>>

Idle == [at |-> "idle"]

AppInit ==
    /\ frames = <<>>
    /\ handler = [c \in Sources |-> Idle]
    /\ raw_messages = {}
    /\ normalized_jobs = {}
    /\ handed = {}

(* The frames the collector of feed c can hand over. *)
FramesOf(c) ==
    {MkFrame(c, kind, ShapeA) : kind \in FrameKinds}
    \cup {MkFrame(c, "notify", ShapeB)}

(* Collector c calls the handler with a frame; the handler runs up to its  *)
(* first await, inside db.store_raw_message.                               *)
HandleMessage(c) ==
    /\ handler[c] = Idle
    /\ Len(frames) < MaxHandled
    /\ \E frame \in FramesOf(c) :
          /\ frames' = Append(frames, frame)
          /\ handler' = [handler EXCEPT ![c] =
                            [at |-> "store_raw", id |-> Len(frames) + 1]]
    /\ UNCHANGED <<raw_messages, normalized_jobs, handed>>
    /\ UNCHANGED <<cmpVars, clientVars, extVars>>

(* The insert into raw_messages returns or fails (the failure is logged);  *)
(* the handler normalizes the frame and either ends or runs up to its next *)
(* await, inside db.store_normalized_job.                                  *)
AfterStoreRaw(c) ==
    /\ handler[c].at = "store_raw"
    /\ \E stored \in BOOLEAN :
          raw_messages' = IF stored THEN raw_messages \cup {handler[c].id}
                          ELSE raw_messages
    /\ LET normalized == Normalize(frames[handler[c].id])
       IN  handler' = [handler EXCEPT ![c] =
                IF normalized # <<>>
                THEN [at |-> "store_normalized", id |-> handler[c].id,
                      job |-> normalized[1]]
                ELSE Idle]
    /\ UNCHANGED <<frames, normalized_jobs, handed>>
    /\ UNCHANGED <<cmpVars, clientVars, extVars>>

(* The insert into normalized_jobs returns or fails (logged); the handler  *)
(* calls comparator.process_job, which runs to its end, and returns.       *)
AfterStoreNormalized(c) ==
    /\ handler[c].at = "store_normalized"
    /\ \E stored \in BOOLEAN :
          normalized_jobs' =
              IF stored
              THEN normalized_jobs \cup {[id |-> handler[c].id, job |-> handler[c].job]}
              ELSE normalized_jobs
    /\ handed' = handed \cup {[id |-> handler[c].id, job |-> handler[c].job]}
    /\ ProcessJob(handler[c].job)
    /\ handler' = [handler EXCEPT ![c] = Idle]
    /\ UNCHANGED <<frames, raw_messages>>
    /\ UNCHANGED <<clientVars, extVars>>

HandlerNext ==
    \/ \E c \in Sources : HandleMessage(c)
    \/ \E c \in Sources : AfterStoreRaw(c)
    \/ \E c \in Sources : AfterStoreNormalized(c)

-----------------------------------------------------------------------------

(* The jobs fed to the comparator: every shape on every feed, and a job of *)
(* an unknown source.                                                      *)
InputJobs ==
    {MkShaped(src, t) : src \in Sources, t \in JobShapes}
    \cup {MkShaped("unknown.feed", ShapeA)}

CmpInit ==
    /\ clock = 1
    /\ recent_jobs = [s \in Sources |-> <<>>]
    /\ job_matches = <<>>
    /\ pools_seen = {}
    /\ heights_seen = {}
    /\ processing_stats = [jobs_processed |-> 0, matches_found |-> 0]
    /\ returned = <<>>
    /\ call_log = <<>>
    /\ analyzer_jobs = [a \in Analyzers |-> 0]
    /\ last_call = NoCall

Feed ==
    /\ Len(call_log) < MaxJobs
    /\ \E job \in InputJobs : ProcessJob(job)
    /\ UNCHANGED <<clientVars, appVars, extVars>>

CmpTick == Tick /\ UNCHANGED <<clientVars, appVars, extVars>>

-----------------------------------------------------------------------------
(* The receive loop of one connection: BaseStratumClient._process_messages *)
(* of every collector, each on an open socket.  A message is JSON text the *)
(* handler returns from ("job"), JSON text the handler raises on ("bad"),  *)
(* or text that is not JSON ("garbage").  The handler is the orchestrator's*)
(* _handle_message: it awaits the raw store, then the normalized store,    *)
(* and calls process_job before it returns.                                *)

MsgKinds == {"job", "bad", "garbage"}

MkMsg(n, kind) == [n |-> n, kind |-> kind]

JsonParses_Always(m) == TRUE

(* json.loads(message): TRUE when the text parses. *)
JsonParses(m) == m.kind # "garbage"

LogEvent(c, n, ev) == [feed |-> c, n |-> n, ev |-> ev]

TotalRx == Len(rx[SourceOrder[1]]) + Len(rx[SourceOrder[2]]) + Len(rx[SourceOrder[3]])

LoopInit ==
    /\ lp = [c \in Sources |-> [at |-> "recv", messages_received |-> 0]]
    /\ inflight = [c \in Sources |-> {}]
    /\ rx = [c \in Sources |-> <<>>]
    /\ hlog = <<>>

AwaitHandler_NotAwaited(c, m) ==
    /\ lp' = [lp EXCEPT ![c] = [at |-> "recv",
                                messages_received |-> @.messages_received + 1]]
    /\ inflight' = [inflight EXCEPT ![c] = @ \cup {[msg |-> m, at |-> "store_raw"]}]
    /\ hlog' = Append(hlog, LogEvent(c, m.n, "start"))

(* `await self.message_handler(enriched_message)`: the call starts and the *)
(* loop is suspended until it is over.                                     *)
AwaitHandler(c, m) ==
    /\ lp' = [lp EXCEPT ![c] = [at |-> "handler",
                                messages_received |-> @.messages_received + 1]]
    /\ inflight' = [inflight EXCEPT ![c] = @ \cup {[msg |-> m, at |-> "store_raw"]}]
    /\ hlog' = Append(hlog, LogEvent(c, m.n, "start"))

(* One turn of `async for message in self.websocket`. *)
RecvMessage(c) ==
    /\ lp[c].at = "recv"
    /\ TotalRx < MaxRx
    /\ \E kind \in MsgKinds :
          LET m == MkMsg(Len(rx[c]) + 1, kind)
          IN  /\ rx' = [rx EXCEPT ![c] = Append(@, m)]
              /\ IF JsonParses(m)
                 THEN AwaitHandler(c, m)
                 ELSE /\ lp' = [lp EXCEPT ![c].messages_received = @ + 1]
                      /\ UNCHANGED <<inflight, hlog>>
    /\ UNCHANGED <<cmpVars, clientVars, appVars, statsVars, orchVars, dbVars, mempoolVars, mapperVars, lateVars>>

(* The handler call gets past its first await, or raises there; the loop's *)
(* `except Exception` logs the error and the loop goes on.                 *)
HandlerStored(c) ==
    /\ \E h \in inflight[c] :
          /\ h.at = "store_raw"
          /\ IF h.msg.kind = "bad"
             THEN /\ inflight' = [inflight EXCEPT ![c] = @ \ {h}]
                  /\ hlog' = Append(hlog, LogEvent(c, h.msg.n, "raise"))
                  /\ lp' = [lp EXCEPT ![c].at = "recv"]
             ELSE /\ inflight' = [inflight EXCEPT ![c] =
                                     (@ \ {h}) \cup {[h EXCEPT !.at = "store_normalized"]}]
                  /\ UNCHANGED <<lp, hlog>>
    /\ UNCHANGED rx
    /\ UNCHANGED <<cmpVars, clientVars, appVars, statsVars, orchVars, dbVars, mempoolVars, mapperVars, lateVars>>

(* The handler call gets past its second await, hands the job to the       *)
(* comparator and returns; the loop takes the next message.                *)
HandlerReturn(c) ==
    /\ \E h \in inflight[c] :
          /\ h.at = "store_normalized"
          /\ inflight' = [inflight EXCEPT ![c] = @ \ {h}]
          /\ hlog' = hlog \o <<LogEvent(c, h.msg.n, "process_job"),
                               LogEvent(c, h.msg.n, "end")>>
          /\ lp' = [lp EXCEPT ![c].at = "recv"]
    /\ UNCHANGED rx
    /\ UNCHANGED <<cmpVars, clientVars, appVars, statsVars, orchVars, dbVars, mempoolVars, mapperVars, lateVars>>

(* The peer closes the socket: the iteration over the socket ends. *)
ConnectionClosed(c) ==
    /\ lp[c].at = "recv"
    /\ lp' = [lp EXCEPT ![c].at = "closed"]
    /\ UNCHANGED <<inflight, rx, hlog>>
    /\ UNCHANGED <<cmpVars, clientVars, appVars, statsVars, orchVars, dbVars, mempoolVars, mapperVars, lateVars>>

LoopRecv == \E c \in Sources : RecvMessage(c)
LoopStored == \E c \in Sources : HandlerStored(c)
LoopReturn == \E c \in Sources : HandlerReturn(c)
LoopClosed == \E c \in Sources : ConnectionClosed(c)

LoopNext == LoopRecv \/ LoopStored \/ LoopReturn \/ LoopClosed

-----------------------------------------------------------------------------
(* StatsCalculator (src/src/analysis/stats_calculator.py): the per-feed    *)
(* job lists and the agreement log over a rolling window.  A record is     *)
(* kept as its timestamp; a combination of feeds is the set of its names,  *)
(* which is what the sorted tuple of the code identifies.  A rate is the   *)
(* pair <<count, min_service_count>> of the division the code performs.    *)

Combos == (SUBSET Sources) \ {{}}

(* The feed lists passed to add_job_agreement: one feed alone, a pair, and *)
(* all three.                                                              *)
AgreementInputs ==
    {{SourceOrder[1]}, {SourceOrder[1], SourceOrder[2]}, Sources}

MaxOf(S) == CHOOSE x \in S : \A y \in S : y <= x

MinOf(S) == CHOOSE x \in S : \A y \in S : x <= y

(* Counter(): the number of agreements logged for each combination. *)
CountAgreements(agreements) ==
    [k \in Combos |->
        Cardinality({i \in 1..Len(agreements) : agreements[i].services = k})]

MinServiceCount_Largest(services, jobs) == MaxOf({Len(jobs[s]) : s \in services})

(* min(service_counts.get(service, 0) for service in services) *)
MinServiceCount(services, jobs) == MinOf({Len(jobs[s]) : s \in services})

(* _update_agreement_rates: a rate for every counted combination of two    *)
(* or more feeds whose smallest job count is positive.                     *)
UpdateAgreementRates(counts, jobs) ==
    [k \in {c \in Combos : /\ counts[c] > 0
                           /\ Cardinality(c) >= 2
                           /\ MinServiceCount(c, jobs) > 0}
        |-> <<counts[k], MinServiceCount(k, jobs)>>]

(* _clean_old_data keeps the records whose timestamp is not before the     *)
(* cutoff now - time_window.                                               *)
KeepRecent(recs, now) == SelectSeq(recs, LAMBDA ts : ts >= now - StatsWindow)

KeepRecentAgreements(agreements, now) ==
    SelectSeq(agreements, LAMBDA a : a.timestamp >= now - StatsWindow)

StatsInit ==
    /\ snow = 1
    /\ by_service = [s \in Sources |-> <<>>]
    /\ total_jobs = 0
    /\ job_agreements = <<>>
    /\ agreement_counts = [k \in Combos |-> 0]
    /\ agreement_rates = <<>>

(* add_job(job): append, count, then _clean_old_data. *)
AddJob ==
    /\ total_jobs < MaxStatJobs
    /\ \E src \in Sources, ts \in {snow} :
          LET appended == [by_service EXCEPT ![src] = Append(@, ts)]
              cleaned == [s \in Sources |-> KeepRecent(appended[s], snow)]
              kept == KeepRecentAgreements(job_agreements, snow)
              counts == CountAgreements(kept)
          IN  /\ by_service' = cleaned
              /\ total_jobs' = total_jobs + 1
              /\ job_agreements' = kept
              /\ agreement_counts' = counts
              /\ agreement_rates' = UpdateAgreementRates(counts, cleaned)
    /\ UNCHANGED snow
    /\ UNCHANGED <<cmpVars, clientVars, appVars, loopVars, orchVars, dbVars, mempoolVars, mapperVars, lateVars>>

(* add_job_agreement(agreement): log it, count it, update the rates. *)
AddJobAgreement ==
    /\ Len(job_agreements) < MaxAgreements
    /\ \E services \in AgreementInputs :
          LET counts == [agreement_counts EXCEPT ![services] = @ + 1]
          IN  /\ job_agreements' = Append(job_agreements,
                                          [services |-> services, timestamp |-> snow])
              /\ agreement_counts' = counts
              /\ agreement_rates' = UpdateAgreementRates(counts, by_service)
    /\ UNCHANGED <<snow, by_service, total_jobs>>
    /\ UNCHANGED <<cmpVars, clientVars, appVars, loopVars, orchVars, dbVars, mempoolVars, mapperVars, lateVars>>

(* datetime.utcnow() advances. *)
StatsTick ==
    /\ snow < MaxStatClock
    /\ snow' = snow + 1
    /\ UNCHANGED <<by_service, total_jobs, job_agreements, agreement_counts,
                   agreement_rates>>
    /\ UNCHANGED <<cmpVars, clientVars, appVars, loopVars, orchVars, dbVars, mempoolVars, mapperVars, lateVars>>

StatsNext == AddJob \/ AddJobAgreement \/ StatsTick

-----------------------------------------------------------------------------
(* The orchestrator's start-up (StratumMonitorApp.start and stop, main) and *)
(* the /api/stats route (src/src/api/routes.py).  The tasks are the three   *)
(* collectors' connect(), the periodic statistics and the API server.       *)

Tasks == Sources \cup {"stats", "api"}

(* The parameters of start_api_server, and the keywords of the call in     *)
(* start().                                                                *)
ApiParams == {"host", "port", "comparator_instance", "db_instance", "origins"}

CallKeywords == {"host", "port", "comparator", "db", "origins"}

Binds_AnyKeyword(keywords) == TRUE

(* A call binds when every keyword names a parameter; otherwise it raises  *)
(* TypeError before the body runs.                                         *)
Binds(keywords) == keywords \subseteq ApiParams

NoResponse == [status |-> 0]

OrchInit ==
    /\ app_pc = "created"
    /\ running = FALSE
    /\ client_run = [c \in Sources |-> "absent"]
    /\ tasks = [t \in Tasks |-> "none"]
    /\ db_state = "new"
    /\ api_comparator = "none"
    /\ response = NoResponse

(* stop(): running off, every collector told to stop, database closed. *)
StopApp ==
    /\ running' = FALSE
    /\ client_run' = [c \in Sources |->
                         IF client_run[c] = "absent" THEN "absent" ELSE "stopped"]
    /\ db_state' = "closed"

(* The same, for the collectors start() has just created. *)
StopAppCreated ==
    /\ running' = FALSE
    /\ client_run' = [c \in Sources |-> "stopped"]
    /\ db_state' = "closed"

(* start() up to its first suspension, `await self.db.initialize()`. *)
AppStart ==
    /\ app_pc = "created"
    /\ app_pc' = "db_init"
    /\ running' = TRUE
    /\ UNCHANGED <<client_run, tasks, db_state, api_comparator, response>>
    /\ UNCHANGED <<cmpVars, clientVars, appVars, loopVars, statsVars, dbVars, mempoolVars, mapperVars, lateVars>>

(* start() from the end of db.initialize() on.  If that raised, the except *)
(* clause stops the application.  Otherwise the collectors are created,    *)
(* their tasks and the statistics task are created, and start_api_server   *)
(* is called: when the call binds, its coroutine becomes the API task and  *)
(* start() waits in gather; when it raises, the except clause stops the    *)
(* application and start() returns.  Nothing in between suspends.          *)
AppInitialized ==
    /\ app_pc = "db_init"
    /\ \E ok \in BOOLEAN :
          IF ~ok
          THEN /\ app_pc' = "returned"
               /\ StopApp
               /\ UNCHANGED <<tasks, api_comparator>>
          ELSE IF Binds(CallKeywords)
               THEN /\ app_pc' = "gather"
                    /\ client_run' = [c \in Sources |-> "running"]
                    /\ tasks' = [t \in Tasks |-> "pending"]
                    /\ db_state' = "open"
                    /\ api_comparator' = IF "comparator_instance" \in CallKeywords
                                         THEN "app.comparator" ELSE "none"
                    /\ UNCHANGED running
               ELSE /\ app_pc' = "returned"
                    /\ tasks' = [t \in Tasks |-> IF t = "api" THEN "failed" ELSE "pending"]
                    /\ StopAppCreated
                    /\ UNCHANGED api_comparator
    /\ UNCHANGED response
    /\ UNCHANGED <<cmpVars, clientVars, appVars, loopVars, statsVars, dbVars, mempoolVars, mapperVars, lateVars>>

(* SIGINT or SIGTERM while start() is suspended: the handler runs stop(). *)
AppSignal ==
    /\ app_pc = "db_init"
    /\ running
    /\ StopApp
    /\ UNCHANGED <<app_pc, tasks, api_comparator, response>>
    /\ UNCHANGED <<cmpVars, clientVars, appVars, loopVars, statsVars, dbVars, mempoolVars, mapperVars, lateVars>>

(* main(): run_until_complete(app.start()) is over and the loop is closed; *)
(* the tasks that were still pending never run again.                      *)
AppLoopClosed ==
    /\ app_pc = "returned"
    /\ app_pc' = "closed"
    /\ tasks' = [t \in Tasks |-> IF tasks[t] = "pending" THEN "abandoned" ELSE tasks[t]]
    /\ UNCHANGED <<running, client_run, db_state, api_comparator, response>>
    /\ UNCHANGED <<cmpVars, clientVars, appVars, loopVars, statsVars, dbVars, mempoolVars, mapperVars, lateVars>>

(* max() of the _processed_at of a feed's cached jobs; None, for an empty  *)
(* list, is written 0.                                                     *)
LatestJobTime(jobs) ==
    IF jobs = <<>> THEN 0
    ELSE CHOOSE t \in {jobs[i].processed_at : i \in 1..Len(jobs)} :
            \A i \in 1..Len(jobs) : jobs[i].processed_at <= t

(* comparator.get_statistics(): the sources, processing and matches blocks *)
(* of the snapshot.                                                        *)
GetStatistics ==
    [sources |-> [s \in Sources |->
                     [recent_job_count |-> Len(recent_jobs[s]),
                      pools_observed |->
                          Cardinality({recent_jobs[s][i].mining_pool :
                                          i \in 1..Len(recent_jobs[s])}),
                      latest_job_time |-> LatestJobTime(recent_jobs[s])]],
     processing |-> processing_stats,
     matches |-> [total |-> Len(job_matches)]]

(* The body of GET /api/clients, made of a snapshot: routes.py 73-94. *)
ClientStatus(stats) ==
    [s \in Sources |->
        [status |-> IF stats.sources[s].latest_job_time # 0
                    THEN "active" ELSE "inactive",
         jobs_received |-> stats.sources[s].recent_job_count,
         last_activity |-> stats.sources[s].latest_job_time]]

(* get_client_status(): 503 while the module's comparator is None. *)
ClientsAnswer ==
    IF api_comparator = "none"
    THEN [status |-> 503]
    ELSE [status |-> 200, body |-> ClientStatus(GetStatistics)]

(* get_stats(): 503 while the module's comparator is None, else the        *)
(* comparator's snapshot.                                                  *)
StatsAnswer ==
    IF api_comparator = "none"
    THEN [status |-> 503]
    ELSE [status |-> 200, body |-> GetStatistics]

(* GET /api/stats. *)
GetStats ==
    /\ response' = StatsAnswer
    /\ UNCHANGED <<app_pc, running, client_run, tasks, db_state, api_comparator>>
    /\ UNCHANGED <<cmpVars, clientVars, appVars, loopVars, statsVars, dbVars, mempoolVars, mapperVars, lateVars>>

(* The application's comparator processes a job: one of the input jobs, or *)
(* a job with an empty source.                                             *)
AppFeed ==
    /\ Len(call_log) < MaxApiJobs
    /\ \E job \in InputJobs \cup {MkShaped("", ShapeA)} : ProcessJob(job)
    /\ UNCHANGED <<app_pc, running, client_run, tasks, db_state, api_comparator,
                   response>>
    /\ UNCHANGED <<clientVars, appVars, loopVars, statsVars, dbVars, mempoolVars, mapperVars, lateVars>>

AppNext == AppStart \/ AppInitialized \/ AppSignal \/ AppLoopClosed \/ GetStats \/ AppFeed

-----------------------------------------------------------------------------
(* DatabaseManager.cleanup_old_data (src/src/storage/db.py), as run by the *)
(* maintenance script.  A document is kept as the day of the timestamp     *)
(* the cleanup filters on; the clock counts days.                          *)

CollectionNames == {"raw_messages", "normalized_jobs", "job_matches", "stats"}

(* What the name `datetime` is bound to in db.py: `from datetime import    *)
(* datetime` binds the class, `import datetime` would bind the module.     *)
DatetimeBinding == "class"

AttributesOf(binding) ==
    IF binding = "module"
    THEN {"datetime", "timedelta", "date", "time", "timezone"}
    ELSE {"utcnow", "now", "fromisoformat", "fromtimestamp", "strptime"}

(* An attribute reference on the name `datetime` raises AttributeError     *)
(* unless the bound object has the attribute.                              *)
Resolves(attr) == attr \in AttributesOf(DatetimeBinding)

DbInit ==
    /\ dnow = 0
    /\ initialized = FALSE
    /\ collections = [n \in CollectionNames |-> {}]
    /\ inserted = [n \in CollectionNames |-> {}]
    /\ cutoffs = {}

(* initialize(): the database and the four collections are set. *)
DbInitialize ==
    /\ ~initialized
    /\ initialized' = TRUE
    /\ UNCHANGED <<dnow, collections, inserted, cutoffs>>
    /\ UNCHANGED <<cmpVars, clientVars, appVars, loopVars, statsVars, orchVars, mempoolVars, mapperVars, lateVars>>

(* store_raw_message, store_normalized_job, store_job_match, store_stats:  *)
(* a document stamped with the current time is inserted.                   *)
DbStore ==
    /\ initialized
    /\ \E n \in CollectionNames :
          /\ collections' = [collections EXCEPT ![n] = @ \cup {dnow}]
          /\ inserted' = [inserted EXCEPT ![n] = @ \cup {dnow}]
    /\ UNCHANGED <<dnow, initialized, cutoffs>>
    /\ UNCHANGED <<cmpVars, clientVars, appVars, loopVars, statsVars, orchVars, mempoolVars, mapperVars, lateVars>>

(* cleanup_old_data(days_to_keep): returns at once without a database;     *)
(* otherwise computes the cutoff and deletes the older documents of the    *)
(* four collections, all inside one try whose except logs the error.       *)
CleanupOldData ==
    /\ \E days_to_keep \in 1..MaxKeep :
          IF ~initialized
          THEN UNCHANGED <<collections, cutoffs>>
          ELSE /\ cutoffs' = cutoffs \cup {dnow - days_to_keep}
               /\ IF Resolves("utcnow") /\ Resolves("timedelta")
                  THEN collections' = [n \in CollectionNames |->
                                          {d \in collections[n] : ~(d < dnow - days_to_keep)}]
                  ELSE UNCHANGED collections
    /\ UNCHANGED <<dnow, initialized, inserted>>
    /\ UNCHANGED <<cmpVars, clientVars, appVars, loopVars, statsVars, orchVars, mempoolVars, mapperVars, lateVars>>

(* A day passes. *)
DbTick ==
    /\ dnow < MaxDay
    /\ dnow' = dnow + 1
    /\ UNCHANGED <<initialized, collections, inserted, cutoffs>>
    /\ UNCHANGED <<cmpVars, clientVars, appVars, loopVars, statsVars, orchVars, mempoolVars, mapperVars, lateVars>>

DbNext == DbInitialize \/ DbStore \/ CleanupOldData \/ DbTick

-----------------------------------------------------------------------------
(* MempoolSpaceClient (src/src/collectors/mempool_client.py): the base     *)
(* collector with _process_messages overridden to send the subscription    *)
(* before the base receive loop.                                           *)

Connections == Cardinality({i \in 1..Len(trace) : trace[i].type = "connected"})

MempoolInit ==
    /\ subscription_sent = FALSE
    /\ entered = {}
    /\ subscribed = <<>>

(* _process_messages is entered on the connection just opened: lines 71-90, *)
(* the send of mining.subscribe, which may raise, guarded by the flag.      *)
MempoolEnter ==
    /\ pc = "receiving"
    /\ Connections \notin entered
    /\ entered' = entered \cup {Connections}
    /\ IF ~subscription_sent
       THEN \E ok \in BOOLEAN :
               /\ subscribed' = Append(subscribed, [conn |-> Connections, ok |-> ok])
               /\ subscription_sent' = ok
       ELSE UNCHANGED <<subscription_sent, subscribed>>
    /\ UNCHANGED <<cmpVars, clientVars, appVars, loopVars, statsVars, orchVars, dbVars, mapperVars, lateVars>>

(* super()._process_messages(): the base loop, after the prologue. *)
MempoolRecvFrame ==
    /\ Connections \in entered
    /\ RecvFrame

MempoolNext ==
    \/ Connect \/ ConnectOK \/ ConnectFail \/ MempoolEnter \/ MempoolRecvFrame
    \/ Lost \/ AfterTry \/ Wake \/ Stop

-----------------------------------------------------------------------------
(* The fallback mapping of the three mappers (_apply_manual_mapping of      *)
(* observer_mapper.py, mempool_mapper.py and stratum_work_mapper.py), for   *)
(* the job fields.  A JSON value is a record of its type and its text.      *)

Str(s) == [type |-> "str", val |-> s]
Lst(s) == [type |-> "list", val |-> s]
Num(s) == [type |-> "int", val |-> s]
Bool(s) == [type |-> "bool", val |-> s]
Null == [type |-> "null", val |-> ""]

(* schema.create_empty(): the defaults of the job fields. *)
EmptyUnified ==
    [job_id |-> Str(""), prev_block_hash |-> Str(""), coinbase_tx |-> Str(""),
     merkle_branches |-> Lst("[]"), version |-> Str(""), bits |-> Str(""),
     time |-> Num("0"), clean_jobs |-> Bool("false"), height |-> Num("0")]

SafeConcat_FirstOnly(a, b) ==
    Str(IF a.type = "null" THEN "" ELSE a.val)

(* utils.safe_concat: the texts of the arguments that are not None. *)
SafeConcat(a, b) ==
    Str((IF a.type = "null" THEN "" ELSE a.val) \o (IF b.type = "null" THEN "" ELSE b.val))

(* dict.get(key, default) *)
Get(obj, key, default) == IF key \in DOMAIN obj THEN obj[key] ELSE default

(* The mining.notify branch.  list_only is TRUE for the mappers that take   *)
(* params[4] only when it is a list.                                        *)
NotifyMapping(unified, message, list_only) ==
    IF message.method = "mining.notify" /\ message.params_is_list
    THEN LET params == message.params
             n == Len(params)
         IN  [unified EXCEPT
                 !.job_id = IF n >= 1 THEN params[1] ELSE @,
                 !.prev_block_hash = IF n >= 2 THEN params[2] ELSE @,
                 !.coinbase_tx = IF n >= 4 THEN SafeConcat(params[3], params[4]) ELSE @,
                 !.merkle_branches = IF n >= 5 /\ (~list_only \/ params[5].type = "list")
                                     THEN params[5] ELSE @,
                 !.version = IF n >= 6 THEN params[6] ELSE @,
                 !.bits = IF n >= 7 THEN params[7] ELSE @,
                 !.time = IF n >= 8 THEN params[8] ELSE @,
                 !.clean_jobs = IF n >= 9 THEN params[9] ELSE @]
    ELSE unified

(* The branch of the stratum.work mapper for a message with a job object. *)
JobObjectMapping(unified, job_data) ==
    LET merkle_fields == {f \in {"merkleBranches", "merkle_branches", "merkle"} :
                             f \in DOMAIN job_data}
        merkle_field == IF "merkleBranches" \in merkle_fields THEN "merkleBranches"
                        ELSE IF "merkle_branches" \in merkle_fields THEN "merkle_branches"
                        ELSE "merkle"
    IN  [unified EXCEPT
            !.job_id = Get(job_data, "id", Str("")),
            !.prev_block_hash = Get(job_data, "prevHash", Get(job_data, "prev_hash", Str(""))),
            !.coinbase_tx =
                IF "coinbase1" \in DOMAIN job_data /\ "coinbase2" \in DOMAIN job_data
                THEN SafeConcat(job_data["coinbase1"], job_data["coinbase2"])
                ELSE IF "coinbase" \in DOMAIN job_data THEN job_data["coinbase"] ELSE @,
            !.merkle_branches =
                IF merkle_fields # {} /\ job_data[merkle_field].type = "list"
                THEN job_data[merkle_field] ELSE @,
            !.version = Get(job_data, "version", Str("")),
            !.bits = Get(job_data, "bits", Get(job_data, "nbits", Str(""))),
            !.time = Get(job_data, "time", Get(job_data, "ntime", Num("0"))),
            !.height = Get(job_data, "height", Num("0")),
            !.clean_jobs = Get(job_data, "cleanJobs", Get(job_data, "clean_jobs", Bool("false")))]

(* _apply_manual_mapping of the mapper of the feed, on the job fields. *)
ApplyManualMapping(feed, message) ==
    IF feed = "miningpool.observer"
    THEN NotifyMapping(EmptyUnified, message, FALSE)
    ELSE IF feed = "mempool.space"
    THEN NotifyMapping(EmptyUnified, message, TRUE)
    ELSE IF DOMAIN message.job # {}
         THEN JobObjectMapping(EmptyUnified, message.job)
         ELSE NotifyMapping(EmptyUnified, message, TRUE)

(* The inputs: the params array of the spec's example cut to every length, *)
(* with a list, a string or null where the example has its list and its    *)
(* second coinbase half; a message with or without a job object.           *)
FullParams(cb2, merkle) ==
    <<Str("job1"), Str("prevhash1"), Str("cb1"), cb2, merkle,
      Str("v1"), Str("b1"), Num("1700000000"), Bool("true")>>

NoObject == [k \in {} |-> Null]

JobCamel ==
    [k \in {"id", "prevHash", "coinbase1", "coinbase2", "merkleBranches", "version",
            "bits", "time", "height", "cleanJobs"} |->
        CASE k = "id" -> Str("jobX")
          [] k = "prevHash" -> Str("prevX")
          [] k = "coinbase1" -> Str("cx1")
          [] k = "coinbase2" -> Str("cx2")
          [] k = "merkleBranches" -> Lst("[mx]")
          [] k = "version" -> Str("vX")
          [] k = "bits" -> Str("bX")
          [] k = "time" -> Num("1700000001")
          [] k = "height" -> Num("800000")
          [] k = "cleanJobs" -> Bool("false")]

JobSnake ==
    [k \in {"id", "prev_hash", "coinbase", "merkle", "nbits", "ntime", "clean_jobs"} |->
        CASE k = "id" -> Str("jobY")
          [] k = "prev_hash" -> Str("prevY")
          [] k = "coinbase" -> Str("cy")
          [] k = "merkle" -> Str("notalist")
          [] k = "nbits" -> Str("bY")
          [] k = "ntime" -> Num("1700000002")
          [] k = "clean_jobs" -> Bool("true")]

Messages ==
    {[method |-> method, params_is_list |-> is_list,
      params |-> SubSeq(FullParams(cb2, merkle), 1, n), job |-> job] :
        method \in {"mining.notify", "mining.set_difficulty"},
        is_list \in BOOLEAN,
        cb2 \in {Str("cb2"), Null},
        merkle \in {Lst("[m1,m2]"), Str("m1")},
        n \in 0..Len(FullParams(Null, Null)),
        job \in {NoObject, JobCamel, JobSnake}}

NotMapped == [job_id |-> Null]

MapperInit ==
    /\ map_in = [feed |-> ""]
    /\ map_out = NotMapped

(* mapper.map(data) of the feed's mapper, with no configured mapping. *)
MapFallback ==
    /\ map_out = NotMapped
    /\ \E feed \in Sources, message \in Messages :
          /\ map_in' = [feed |-> feed, message |-> message]
          /\ map_out' = ApplyManualMapping(feed, message)
    /\ UNCHANGED <<cmpVars, clientVars, appVars, loopVars, statsVars, orchVars, dbVars,
                   mempoolVars, lateVars>>

MapperNext == MapFallback

-----------------------------------------------------------------------------
(* The path of a frame from its collector into the timing and the region   *)
(* analyzer: BaseStratumClient._process_messages stamps the frame on       *)
(* receipt (received_at, received_timestamp, target_region), the mapper    *)
(* copies received_at into the job's timestamp and target_region into its  *)
(* region, _handle_message awaits the two database stores, and process_job *)
(* hands the job to the analyzers with the time.time() it read itself.     *)
(* Times are in clock units.                                               *)

(* The target region each collector is constructed with: the               *)
(* target_region of its service's configuration.                           *)
TargetRegion ==
    [c \in Sources |-> IF c = SourceOrder[1] THEN "eu" ELSE "global"]

Regions == {TargetRegion[c] : c \in Sources}

(* Ordered pairs: "first-second" keys of the propagation statistics. *)
SourcePairs == {p \in Sources \X Sources : p[1] # p[2]}

RegionPairs == Regions \X Regions

(* The list slice seq[-window_size:] taken when seq is longer than         *)
(* window_size, as both analyzers apply it to their lists.                 *)
KeepWindow(seq) == TrimMatches(seq)

(* The enriched message of lines 113-123 of base_client.py. *)
MkTimedFrame(c, shape, now) ==
    [service_name |-> c, shape |-> shape, received_at |-> now,
     target_region |-> TargetRegion[c]]

(* What the mapper and the normalizer make of it: the job, with the        *)
(* receipt time as its timestamp.                                          *)
TimedJob(frame) ==
    [MkShaped(frame.service_name, frame.shape) EXCEPT !.timestamp = frame.received_at]

(* TimingAnalyzer.add_job, lines 64-72: the job_timing record. *)
JobTiming(job, received_timestamp) ==
    [job_id |-> job.job_id, mining_pool |-> job.mining_pool, height |-> job.height,
     timestamp |-> job.timestamp, received_at |-> received_timestamp,
     prev_block_hash |-> job.prev_block_hash]

(* Lines 118-129: the match test of the timing analyzer. *)
IsTimingMatch(job_timing, other_job) ==
    \/ /\ job_timing.job_id = other_job.job_id
       /\ job_timing.mining_pool = other_job.mining_pool
    \/ /\ job_timing.prev_block_hash # ""
       /\ job_timing.height # 0
       /\ job_timing.prev_block_hash = other_job.prev_block_hash
       /\ job_timing.height = other_job.height

(* FirstSource that names the feed of the later received_at. *)
FirstSource_Later(job_timing, source, other_job, other_source) ==
    IF job_timing.received_at >= other_job.received_at THEN source ELSE other_source

(* Line 136: which of the two jobs the analyzer takes as the first. *)
FirstSource(job_timing, source, other_job, other_source) ==
    IF job_timing.received_at <= other_job.received_at THEN source ELSE other_source

(* Lines 132-147: the match_data record.  receipts is history: the         *)
(* timestamps (receipt times at the collectors) of the job and of the      *)
(* other job.                                                              *)
MatchData(job_timing, source, other_job, other_source) ==
    LET first_source == FirstSource(job_timing, source, other_job, other_source)
    IN  [job_id |-> job_timing.job_id, mining_pool |-> job_timing.mining_pool,
         sources |-> <<source, other_source>>,
         first_source |-> first_source,
         second_source |-> IF first_source = source THEN other_source ELSE source,
         propagation_time |-> Abs(job_timing.received_at - other_job.received_at),
         receipts |-> <<job_timing.timestamp, other_job.timestamp>>]

(* Lines 115-163 for one other feed: the match_data of the first job of    *)
(* its list that matches, or nothing.                                      *)
TimingMatchIn(job_timing, source, other_source, jobs) ==
    LET hits == {i \in 1..Len(jobs) : IsTimingMatch(job_timing, jobs[i])}
    IN  IF hits = {} THEN <<>>
        ELSE <<MatchData(job_timing, source, jobs[Min(hits)], other_source)>>

(* Lines 110-112: the loop over service_job_times.items(). *)
RECURSIVE TimingMatchesFrom(_, _, _, _)
TimingMatchesFrom(job_timing, source, times, i) ==
    IF i > Len(SourceOrder) THEN <<>>
    ELSE (IF SourceOrder[i] = source THEN <<>>
          ELSE TimingMatchIn(job_timing, source, SourceOrder[i], times[SourceOrder[i]]))
         \o TimingMatchesFrom(job_timing, source, times, i + 1)

(* TimingAnalyzer.add_job(job, received_timestamp), the whole call but for *)
(* the numpy summaries of the lists.                                       *)
TimingAddJob(job, received_timestamp) ==
    LET source == job.source
        job_timing == JobTiming(job, received_timestamp)
        times == [service_job_times EXCEPT ![source] = KeepWindow(Append(@, job_timing))]
        own == times[source]
        matches == TimingMatchesFrom(job_timing, source, times, 1)
        pairOf(m) == <<m.first_source, m.second_source>>
    IN  /\ service_job_times' = times
        /\ inter_arrival' =
              IF Len(own) > 1
              THEN [inter_arrival EXCEPT ![source] = KeepWindow(Append(@,
                        own[Len(own)].received_at - own[Len(own) - 1].received_at))]
              ELSE inter_arrival
        /\ propagation_stats' =
              [p \in SourcePairs |->
                  IF \E i \in 1..Len(matches) : pairOf(matches[i]) = p
                  THEN LET i == CHOOSE k \in 1..Len(matches) : pairOf(matches[k]) = p
                       IN  KeepWindow(Append(propagation_stats[p],
                                             matches[i].propagation_time))
                  ELSE propagation_stats[p]]
        /\ timing_matches' =
              IF matches # <<>>
              THEN KeepWindow(Append(timing_matches,
                      [job_id |-> job_timing.job_id,
                       mining_pool |-> job_timing.mining_pool,
                       primary_source |-> source, matches |-> matches]))
              ELSE timing_matches

(* The count of feed s in first_counts: the match entries, over all match  *)
(* records, whose first_source is s.                                       *)
RECURSIVE FirstCount(_, _)
FirstCount(s, records) ==
    IF records = <<>> THEN 0
    ELSE Cardinality({k \in 1..Len(records[1].matches) :
                         records[1].matches[k].first_source = s})
         + FirstCount(s, Tail(records))

(* TimingAnalyzer.get_first_provider_stats(): for every feed with a count, *)
(* the count and (count / total_matches) * 100; the percentage is kept as  *)
(* the pair of count * 100 and total_matches.                              *)
FirstProviderStats ==
    IF Len(timing_matches) = 0 THEN <<>>
    ELSE [s \in {x \in Sources : FirstCount(x, timing_matches) > 0} |->
             [count |-> FirstCount(s, timing_matches),
              percentage |-> <<FirstCount(s, timing_matches) * 100,
                               Len(timing_matches)>>]]

(* OtherRegions that does not skip the job's own region. *)
OtherRegions_All(regions, target_region) == regions

(* Lines 94-96 of region_analyzer.py: the region buckets of the feed the   *)
(* scan looks into.                                                        *)
OtherRegions(regions, target_region) == regions \ {target_region}

(* RegionAnalyzer.add_job(job, received_timestamp) for a job whose region  *)
(* block names target_region.  The structures keyed by mining pool are     *)
(* written and never read by the scan; they are left out.                  *)
RegionAddJob(job, target_region, received_timestamp) ==
    LET source == job.source
        job_data == [job_id |-> job.job_id, mining_pool |-> job.mining_pool,
                     height |-> job.height, target_region |-> target_region,
                     received_at |-> received_timestamp]
        old == region_jobs[source]
        bucket == IF target_region \in DOMAIN old THEN old[target_region] ELSE <<>>
        buckets == [r \in DOMAIN old \cup {target_region} |->
                       IF r = target_region THEN KeepWindow(Append(bucket, job_data))
                       ELSE old[r]]
        hit(r) == {i \in 1..Len(buckets[r]) :
                      /\ buckets[r][i].job_id = job_data.job_id
                      /\ buckets[r][i].mining_pool = job_data.mining_pool}
        scanned == {r \in OtherRegions(DOMAIN buckets, target_region) : hit(r) # {}}
        other(r) == buckets[r][Min(hit(r))]
        pairOf(r) == IF received_timestamp <= other(r).received_at
                     THEN <<target_region, r>> ELSE <<r, target_region>>
    IN  /\ region_jobs' = [region_jobs EXCEPT ![source] = buckets]
        /\ service_regions' = [service_regions EXCEPT ![source] = @ \cup {target_region}]
        /\ propagation_by_region' =
              [p \in RegionPairs |->
                  IF \E r \in scanned : pairOf(r) = p
                  THEN LET r == CHOOSE x \in scanned : pairOf(x) = p
                       IN  KeepWindow(Append(propagation_by_region[p],
                              Abs(received_timestamp - other(r).received_at)))
                  ELSE propagation_by_region[p]]

AnalyzerInit ==
    /\ tframes = <<>>
    /\ thandler = [c \in Sources |-> Idle]
    /\ service_job_times = [c \in Sources |-> <<>>]
    /\ inter_arrival = [c \in Sources |-> <<>>]
    /\ timing_matches = <<>>
    /\ propagation_stats = [p \in SourcePairs |-> <<>>]
    /\ region_jobs = [c \in Sources |-> <<>>]
    /\ service_regions = [c \in Sources |-> {}]
    /\ propagation_by_region = [p \in RegionPairs |-> <<>>]

(* The job contents collector c receives here: the base job on every feed, *)
(* and on the first feed also a job that matches nothing.                  *)
TimedShapes(c) == IF c = SourceOrder[1] THEN {ShapeA, ShapeC} ELSE {ShapeA}

(* Collector c reads a frame and calls the handler, which runs up to its   *)
(* first await, inside db.store_raw_message.                               *)
TimedReceive(c) ==
    /\ thandler[c] = Idle
    /\ Len(tframes) < MaxTimed
    /\ \E shape \in TimedShapes(c) :
          tframes' = Append(tframes, MkTimedFrame(c, shape, clock))
    /\ thandler' = [thandler EXCEPT ![c] = [at |-> "store_raw", id |-> Len(tframes) + 1]]
    /\ UNCHANGED <<service_job_times, inter_arrival, timing_matches,
                   propagation_stats, region_jobs, service_regions,
                   propagation_by_region>>
    /\ UNCHANGED <<cmpVars, clientVars, appVars, midVars, turnVars, shutVars>>

(* The raw store is over; the frame is normalized and the handler runs up  *)
(* to its next await, inside db.store_normalized_job.                      *)
TimedStoredRaw(c) ==
    /\ thandler[c].at = "store_raw"
    /\ thandler' = [thandler EXCEPT ![c] = [at |-> "store_normalized", id |-> @.id]]
    /\ UNCHANGED <<tframes, service_job_times, inter_arrival, timing_matches,
                   propagation_stats, region_jobs, service_regions,
                   propagation_by_region>>
    /\ UNCHANGED <<cmpVars, clientVars, appVars, midVars, turnVars, shutVars>>

(* The normalized store is over; process_job runs to its end, giving the   *)
(* job to the analyzers with job_timestamp, the clock it read at line 100. *)
TimedProcess(c) ==
    /\ thandler[c].at = "store_normalized"
    /\ LET frame == tframes[thandler[c].id]
           job == TimedJob(frame)
       IN  /\ ProcessJob(job)
           /\ TimingAddJob(job, clock)
           /\ RegionAddJob(job, frame.target_region, clock)
    /\ thandler' = [thandler EXCEPT ![c] = Idle]
    /\ UNCHANGED tframes
    /\ UNCHANGED <<clientVars, appVars, midVars, turnVars, shutVars>>

(* The wall clock advances; before the first frame the time is of no      *)
(* account.                                                                *)
TimedTick ==
    /\ tframes # <<>>
    /\ clock < MaxTimedClock
    /\ Tick
    /\ UNCHANGED <<clientVars, appVars, extVars>>

AnalyzerNext ==
    \/ \E c \in Sources : TimedReceive(c)
    \/ \E c \in Sources : TimedStoredRaw(c)
    \/ \E c \in Sources : TimedProcess(c)
    \/ TimedTick

-----------------------------------------------------------------------------
(* The event loop's turns.  A task runs from where it was resumed to its   *)
(* next await that reaches the event loop; awaiting a coroutine suspends   *)
(* the caller only where the coroutine itself suspends.  The tasks are the *)
(* collectors' _handle_message calls, each suspended in its two database   *)
(* stores, the statistics task (_periodic_stats) and an HTTP request       *)
(* (routes.py), which call get_statistics().                               *)

NoJob == [source |-> "-"]

(* SuspendingAwaits with an await of the event loop in _find_matching_jobs. *)
SuspendingAwaits_Yielding(coroutine) ==
    IF coroutine = "_find_matching_jobs" THEN {"sleep"} ELSE {}

(* The awaits in the body of a coroutine of the comparator that reach the  *)
(* event loop: _find_matching_jobs (lines 139-207) is declared async and   *)
(* has no await in it.                                                     *)
SuspendingAwaits(coroutine) == {}

(* process_job from its start to the await of line 108: lines 80-105. *)
ProcessJobUntilAwait(job) ==
    LET stamped == [job EXCEPT !.processed_at = clock]
        appended == [recent_jobs EXCEPT ![job.source] = Append(@, stamped)]
    IN  /\ processing_stats' = [processing_stats EXCEPT !.jobs_processed = @ + 1]
        /\ pools_seen' = IF job.mining_pool # "" THEN pools_seen \cup {job.mining_pool}
                         ELSE pools_seen
        /\ heights_seen' = IF job.height # 0 THEN heights_seen \cup {job.height}
                           ELSE heights_seen
        /\ recent_jobs' = CleanOldJobs(appended, clock)
        /\ last_call' = job
        /\ UNCHANGED <<clock, job_matches, returned, call_log, analyzer_jobs>>

(* process_job from the await of line 108 to its end: lines 108-137, on    *)
(* the caches as they are when the call is resumed.                        *)
ProcessJobAfterAwait(stamped) ==
    LET matches == FindMatchingJobs(stamped, recent_jobs)
    IN  /\ job_matches' = RecordMatch(stamped, matches, job_matches, clock)
        /\ processing_stats' =
               [processing_stats EXCEPT !.matches_found =
                    @ + (IF matches # <<>> THEN 1 ELSE 0)]
        /\ analyzer_jobs' = [a \in Analyzers |-> analyzer_jobs[a] + 1]
        /\ returned' = matches
        /\ call_log' = Append(call_log, stamped)
        /\ UNCHANGED <<clock, recent_jobs, pools_seen, heights_seen, last_call>>

TurnInit ==
    /\ turn_handler = [c \in Sources |-> "idle"]
    /\ in_process = [c \in Sources |-> NoJob]
    /\ snapshot = [status |-> 0]
    /\ observers = {}
    /\ saw_partial = FALSE

(* A reader runs: it is noted, and whether some process_job call is        *)
(* suspended between its append and its end.                               *)
Observe(reader) ==
    /\ observers' = observers \cup {reader}
    /\ saw_partial' = (saw_partial \/ \E c \in Sources : in_process[c] # NoJob)

(* The jobs collector c delivers here. *)
TurnJobs(c) == {MkShaped(c, t) : t \in TimedShapes(c)}

(* Collector c calls the handler with a frame; it runs up to its first     *)
(* await, inside db.store_raw_message.                                     *)
TurnReceive(c) ==
    /\ turn_handler[c] = "idle"
    /\ Len(call_log) + Cardinality({d \in Sources : turn_handler[d] # "idle"})
          < MaxTurnJobs
    /\ turn_handler' = [turn_handler EXCEPT ![c] = "store_raw"]
    /\ UNCHANGED <<in_process, snapshot, observers, saw_partial>>
    /\ UNCHANGED <<cmpVars, clientVars, appVars, midVars, analyzerVars, shutVars>>

(* The raw store is over; the handler runs up to its next await, inside    *)
(* db.store_normalized_job.                                                *)
TurnStoredRaw(c) ==
    /\ turn_handler[c] = "store_raw"
    /\ turn_handler' = [turn_handler EXCEPT ![c] = "store_normalized"]
    /\ UNCHANGED <<in_process, snapshot, observers, saw_partial>>
    /\ UNCHANGED <<cmpVars, clientVars, appVars, midVars, analyzerVars, shutVars>>

(* The handler of collector c is resumed.  After the normalized store it   *)
(* calls process_job, which runs to its end unless the await of line 108   *)
(* suspends; a call suspended there runs on to its end.                    *)
TurnProcess(c) ==
    /\ turn_handler[c] = "store_normalized"
    /\ IF in_process[c] # NoJob
       THEN /\ ProcessJobAfterAwait(in_process[c])
            /\ in_process' = [in_process EXCEPT ![c] = NoJob]
            /\ turn_handler' = [turn_handler EXCEPT ![c] = "idle"]
            /\ UNCHANGED <<observers, saw_partial>>
       ELSE \E job \in TurnJobs(c) :
               /\ Observe(c)
               /\ IF SuspendingAwaits("_find_matching_jobs") # {}
                  THEN /\ ProcessJobUntilAwait(job)
                       /\ in_process' = [in_process EXCEPT ![c] =
                                            [job EXCEPT !.processed_at = clock]]
                       /\ UNCHANGED turn_handler
                  ELSE /\ ProcessJob(job)
                       /\ turn_handler' = [turn_handler EXCEPT ![c] = "idle"]
                       /\ UNCHANGED in_process
    /\ UNCHANGED snapshot
    /\ UNCHANGED <<clientVars, appVars, midVars, analyzerVars, shutVars>>

(* One round of _periodic_stats: get_statistics() is called, and the task  *)
(* is suspended in db.store_stats and then in its sleep.  at and counted   *)
(* are history: the clock of the call and the caches it read.              *)
TurnRead ==
    /\ snapshot' = [status |-> 200, body |-> GetStatistics, at |-> clock,
                    counted |-> recent_jobs]
    /\ Observe("stats")
    /\ UNCHANGED <<turn_handler, in_process>>
    /\ UNCHANGED <<cmpVars, clientVars, appVars, midVars, analyzerVars, shutVars>>

(* GET /api/clients: the route calls get_statistics() when its comparator  *)
(* is set.                                                                 *)
TurnRequest ==
    /\ response' = ClientsAnswer
    /\ IF api_comparator # "none" THEN Observe("http")
       ELSE UNCHANGED <<observers, saw_partial>>
    /\ UNCHANGED <<turn_handler, in_process, snapshot>>
    /\ UNCHANGED <<app_pc, running, client_run, tasks, db_state, api_comparator>>
    /\ UNCHANGED <<cmpVars, clientVars, appVars, loopVars, statsVars, dbVars,
                   mempoolVars, mapperVars, analyzerVars, shutVars>>

(* The readers of the comparator over time: jobs are processed, the clock  *)
(* advances, and the statistics task and requests read the snapshot.       *)

(* A collector's handler gets as far as process_job. *)
ReadFeed ==
    /\ Len(call_log) < MaxReadJobs
    /\ \E c \in Sources : ProcessJob(MkShaped(c, ShapeA))
    /\ UNCHANGED <<clientVars, appVars, extVars>>

(* The wall clock advances between two turns. *)
ReadTick == Tick /\ UNCHANGED <<clientVars, appVars, extVars>>

ReadNext == ReadFeed \/ ReadTick \/ TurnRead \/ TurnRequest

TurnNext ==
    \/ \E c \in Sources : TurnReceive(c)
    \/ \E c \in Sources : TurnStoredRaw(c)
    \/ \E c \in Sources : TurnProcess(c)
    \/ TurnRead
    \/ TurnRequest

-----------------------------------------------------------------------------
(* StratumMonitorApp.stop() on a running application: the collectors are   *)
(* connected, handlers may be suspended in their database stores.  stop()  *)
(* sets running off, awaits client.stop() of each collector in turn        *)
(* (should_run off, then the close of its websocket), and then closes the  *)
(* database client, which does not suspend.                                *)

ShutInit ==
    /\ stop_pc = "none"
    /\ sockets = [c \in Sources |-> "open"]
    /\ stop_running = [c \in Sources |-> TRUE]
    /\ db_client = "open"
    /\ shut_handler = [c \in Sources |-> "idle"]
    /\ late_ops = {}

(* A handler does op; it is noted when the database is closed already. *)
NoteOp(c, op) ==
    late_ops' = IF db_client = "closed" THEN late_ops \cup {[by |-> c, op |-> op]}
                ELSE late_ops

(* client.stop() of the i-th collector up to its await: base_client.py     *)
(* 133-137.                                                                *)
BeginClientStop(i) ==
    /\ stop_running' = [stop_running EXCEPT ![SourceOrder[i]] = FALSE]
    /\ sockets' = [sockets EXCEPT ![SourceOrder[i]] = "closing"]
    /\ stop_pc' = SourceOrder[i]

(* Collector c reads a frame from its open socket and calls the handler,   *)
(* which runs up to its first await, inside db.store_raw_message.          *)
ShutReceive(c) ==
    /\ sockets[c] = "open"
    /\ shut_handler[c] = "idle"
    /\ Len(call_log) + Cardinality({d \in Sources : shut_handler[d] # "idle"})
          < MaxShutJobs
    /\ shut_handler' = [shut_handler EXCEPT ![c] = "store_raw"]
    /\ NoteOp(c, "store_raw_message")
    /\ UNCHANGED <<stop_pc, sockets, stop_running, db_client>>
    /\ UNCHANGED <<cmpVars, clientVars, appVars, midVars, analyzerVars, turnVars>>

(* The raw store returns, with an id or with the error it logged; the      *)
(* handler normalizes and calls db.store_normalized_job.                   *)
ShutStoredRaw(c) ==
    /\ shut_handler[c] = "store_raw"
    /\ shut_handler' = [shut_handler EXCEPT ![c] = "store_normalized"]
    /\ NoteOp(c, "store_normalized_job")
    /\ UNCHANGED <<stop_pc, sockets, stop_running, db_client>>
    /\ UNCHANGED <<cmpVars, clientVars, appVars, midVars, analyzerVars, turnVars>>

(* The normalized store returns; the handler calls process_job. *)
ShutProcess(c) ==
    /\ shut_handler[c] = "store_normalized"
    /\ ProcessJob(MkShaped(c, ShapeA))
    /\ shut_handler' = [shut_handler EXCEPT ![c] = "idle"]
    /\ NoteOp(c, "process_job")
    /\ UNCHANGED <<stop_pc, sockets, stop_running, db_client>>
    /\ UNCHANGED <<clientVars, appVars, midVars, analyzerVars, turnVars>>

(* stop() is called, by the signal handler's task: main.py 179-184, up to  *)
(* the await in the first client.stop().                                   *)
StopBegin ==
    /\ stop_pc = "none"
    /\ BeginClientStop(1)
    /\ UNCHANGED <<db_client, shut_handler, late_ops>>
    /\ UNCHANGED <<cmpVars, clientVars, appVars, midVars, analyzerVars, turnVars>>

(* The close of a websocket is over: stop() goes on to the next collector, *)
(* or, after the last, closes the database client and returns.             *)
StopClientClosed ==
    /\ stop_pc \in Sources
    /\ LET i == CHOOSE k \in 1..Len(SourceOrder) : SourceOrder[k] = stop_pc
       IN  IF i < Len(SourceOrder)
           THEN /\ stop_running' = [stop_running EXCEPT ![SourceOrder[i + 1]] = FALSE]
                /\ sockets' = [sockets EXCEPT ![stop_pc] = "closed",
                                              ![SourceOrder[i + 1]] = "closing"]
                /\ stop_pc' = SourceOrder[i + 1]
                /\ UNCHANGED db_client
           ELSE /\ sockets' = [sockets EXCEPT ![stop_pc] = "closed"]
                /\ db_client' = "closed"
                /\ stop_pc' = "done"
                /\ UNCHANGED stop_running
    /\ UNCHANGED <<shut_handler, late_ops>>
    /\ UNCHANGED <<cmpVars, clientVars, appVars, midVars, analyzerVars, turnVars>>

ShutNext ==
    \/ \E c \in Sources : ShutReceive(c)
    \/ \E c \in Sources : ShutStoredRaw(c)
    \/ \E c \in Sources : ShutProcess(c)
    \/ StopBegin
    \/ StopClientClosed

(* The initial state of the components added later. *)
LateInit == AnalyzerInit /\ TurnInit /\ ShutInit

(* The initial state of the components added after the first three. *)
ExtInit ==
    LoopInit /\ StatsInit /\ OrchInit /\ DbInit /\ MempoolInit /\ MapperInit
    /\ LateInit

Init == CmpInit /\ ClientInit /\ AppInit /\ ExtInit

Next == Feed \/ CmpTick

Spec == Init /\ [][Next]_vars

SpecClient == Init /\ [][ClientNext]_vars

SpecHandler == Init /\ [][HandlerNext]_vars

SpecLoop == Init /\ [][LoopNext]_vars

SpecStats == Init /\ [][StatsNext]_vars

SpecApp == Init /\ [][AppNext]_vars

SpecDb == Init /\ [][DbNext]_vars

SpecMempool == Init /\ [][MempoolNext]_vars

SpecMapper == Init /\ [][MapperNext]_vars

SpecAnalyzers == Init /\ [][AnalyzerNext]_vars

SpecTurn == Init /\ [][TurnNext]_vars

SpecRead == Init /\ [][ReadNext]_vars

SpecShutdown == Init /\ [][ShutNext]_vars

-----------------------------------------------------------------------------
(* The matcher on every pair of jobs: one job is cached, one is processed. *)

AllJobs ==
    {MkJob(src, id, pool, prev, h, v, b, t) :
        src \in Sources, id \in {"j1", "j2"}, pool \in {"p1", "p2"},
        prev \in {"h1", "h2"}, h \in {0, 1, 2}, v \in {"v1", "v2"},
        b \in {"b1", "b2"}, t \in {1, 2}}

(* The comparator after one accepted process_job call on a new comparator. *)
AfterFirstJob(other) ==
    /\ clock = 1
    /\ recent_jobs = [s \in Sources |->
                        IF s = other.source
                        THEN <<[other EXCEPT !.processed_at = 1]>> ELSE <<>>]
    /\ job_matches = <<>>
    /\ pools_seen = {other.mining_pool}
    /\ heights_seen = IF other.height # 0 THEN {other.height} ELSE {}
    /\ processing_stats = [jobs_processed |-> 1, matches_found |-> 0]
    /\ returned = <<>>
    /\ call_log = <<[other EXCEPT !.processed_at = 1]>>
    /\ analyzer_jobs = [a \in Analyzers |-> 1]
    /\ last_call = other

ScoreInit == ClientInit /\ AppInit /\ ExtInit /\ \E other \in AllJobs : AfterFirstJob(other)

ScoreStep ==
    /\ Len(call_log) = 1
    /\ \E job \in AllJobs : ProcessJob(job)
    /\ UNCHANGED <<clientVars, appVars, extVars>>

ScoreNext == ScoreStep

SpecScore == ScoreInit /\ [][ScoreNext]_vars

-----------------------------------------------------------------------------
(* Claims about the comparator. *)

InCache(job) ==
    \E i \in 1..Len(recent_jobs[job.source]) : recent_jobs[job.source][i] = job

(* The scenario of C1: a new comparator has accepted exactly two jobs, of  *)
(* two different feeds, with the same job_id and mining_pool, the second   *)
(* within the time window of the first.                                    *)
C1_Scenario ==
    /\ Len(call_log) = 2
    /\ call_log[1].source # call_log[2].source
    /\ call_log[1].job_id = call_log[2].job_id
    /\ call_log[1].mining_pool = call_log[2].mining_pool
    /\ call_log[2].processed_at - call_log[1].processed_at <= TimeWindow

(* C1 (as amended): in the scenario exactly one match record exists; its   *)
(* primary job is the job fed second, its matches list holds exactly the   *)
(* job fed first, and propagation_times has one entry, keyed by the feed   *)
(* of that matched (first-fed) job, equal to the non-negative absolute     *)
(* difference of the two receipt times.                                    *)
C1_OneMatchKeyedByMatchedFeed ==
    C1_Scenario =>
        /\ Len(job_matches) = 1
        /\ processing_stats.matches_found = 1
        /\ job_matches[1].primary_job = call_log[2]
        /\ job_matches[1].matches = <<call_log[1]>>
        /\ DOMAIN job_matches[1].propagation_times = {call_log[1].source}
        /\ job_matches[1].propagation_times[call_log[1].source]
              = Abs(call_log[2].processed_at - call_log[1].processed_at)
        /\ job_matches[1].propagation_times[call_log[1].source] >= 0

(* C1 (as stated): ... and propagation_times holds the delta for the       *)
(* second feed, the feed the job was fed through second.                   *)
C1_OneMatchKeyedBySecondFeed ==
    C1_Scenario =>
        /\ Len(job_matches) = 1
        /\ Len(job_matches[1].matches) = 1
        /\ call_log[2].source \in DOMAIN job_matches[1].propagation_times
        /\ job_matches[1].propagation_times[call_log[2].source]
              = Abs(call_log[2].processed_at - call_log[1].processed_at)

C1_Witness ==
    /\ C1_Scenario
    /\ call_log[2].processed_at > call_log[1].processed_at
    /\ call_log[1].prev_block_hash # call_log[2].prev_block_hash
    /\ Len(job_matches) = 1

(* C2: a job of another feed is returned as a match exactly when its score *)
(* - 10 for equal job_id and mining_pool, 8 for equal prev_block_hash, 5   *)
(* for an equal height that is not absent, 2 each for equal version, bits  *)
(* and time - is at least 10; a job of the same feed never is.  So equal   *)
(* job_id and pool always match, version+bits+time alone (6) never match,  *)
(* and prev_block_hash with height (13) match.                             *)
C2_MatchIffScoreAtLeastTen ==
    Len(call_log) = 2 =>
        LET other == call_log[1]
            job == call_log[2]
            sameId == job.job_id = other.job_id /\ job.mining_pool = other.mining_pool
            samePrev == job.prev_block_hash = other.prev_block_hash
            sameHeight == job.height = other.height /\ job.height # 0
            sameVer == job.version = other.version
            sameBits == job.bits = other.bits
            sameTime == job.time = other.time
            claimed == (IF sameId THEN 10 ELSE 0) + (IF samePrev THEN 8 ELSE 0)
                       + (IF sameHeight THEN 5 ELSE 0) + (IF sameVer THEN 2 ELSE 0)
                       + (IF sameBits THEN 2 ELSE 0) + (IF sameTime THEN 2 ELSE 0)
            matched == returned = <<other>>
        IN  /\ returned \in {<<>>, <<other>>}
            /\ job.source = other.source => ~matched
            /\ job.source # other.source =>
                  /\ matched <=> claimed >= 10
                  /\ sameId => matched
                  /\ (~sameId /\ ~samePrev /\ ~sameHeight) => ~matched
                  /\ (samePrev /\ sameHeight) => matched

(* Two jobs of different feeds that share job_id and pool and nothing else *)
(* (score exactly 10) have been matched.                                   *)
C2_Witness ==
    /\ Len(call_log) = 2
    /\ call_log[1].source # call_log[2].source
    /\ call_log[1].job_id = call_log[2].job_id
    /\ call_log[1].mining_pool = call_log[2].mining_pool
    /\ call_log[1].prev_block_hash # call_log[2].prev_block_hash
    /\ call_log[1].height # call_log[2].height
    /\ call_log[1].version # call_log[2].version
    /\ call_log[1].bits # call_log[2].bits
    /\ call_log[1].time # call_log[2].time
    /\ returned = <<call_log[1]>>

(* C3: after a process_job call that accepted a job at time now, no feed's *)
(* cache - the feed of the new job or any other - holds a job whose        *)
(* _processed_at precedes now - time_window.                               *)
C3_NoStaleJobAfterProcess ==
    Len(call_log) > 0 =>
        \A s \in Sources : \A i \in 1..Len(recent_jobs[s]) :
            recent_jobs[s][i].processed_at
                >= call_log[Len(call_log)].processed_at - TimeWindow

(* A job was purged from its feed's cache by a later job of another feed. *)
C3_Witness ==
    /\ Len(call_log) = 2
    /\ call_log[1].source # call_log[2].source
    /\ call_log[2].processed_at > call_log[1].processed_at + TimeWindow
    /\ ~InCache(call_log[1])
    /\ InCache(call_log[2])

(* C4: no feed's cache ever holds more than window_size jobs. *)
C4_CacheCappedAtWindowSize ==
    \A s \in Sources : Len(recent_jobs[s]) <= WindowSize

-----------------------------------------------------------------------------
(* Claims about the collector. *)

(* The wait the spec gives the k-th consecutive failure. *)
RECURSIVE BackoffWait(_)
BackoffWait(k) ==
    IF k <= 1 THEN InitialInterval
    ELSE LET grown == (BackoffWait(k - 1) * FactorNum) \div FactorDen
         IN  IF grown < MaxInterval THEN grown ELSE MaxInterval

(* The number of failed attempts up to event i since the last connection. *)
FailsUpTo(i) ==
    Cardinality({j \in 1..i :
        /\ trace[j].type = "fail"
        /\ \A m \in j..i : trace[m].type # "connected"})

(* C6: between two consecutive connection attempts the collector sleeps:   *)
(* no attempt follows the previous one without a backoff wait in between.  *)
C6_BackoffBetweenAttempts ==
    \A i \in 1..Len(trace) : \A j \in (i + 1)..Len(trace) :
        (trace[i].type = "attempt" /\ trace[j].type = "attempt")
            => \E m \in (i + 1)..(j - 1) : trace[m].type = "sleep"

(* C7: what follows the k-th consecutive failed attempt is a wait of       *)
(* min(initial * factor^(k-1), max): 5.0, 7.5, 11.25, ... and no wait      *)
(* exceeds the maximum.                                                    *)
C7_BackoffSchedule ==
    /\ \A i \in 1..Len(trace) :
          (trace[i].type = "fail" /\ i < Len(trace))
              => trace[i + 1] = Event("sleep", BackoffWait(FailsUpTo(i)))
    /\ \A i \in 1..Len(trace) :
          trace[i].type = "sleep" => trace[i].d <= MaxInterval

(* C8: a successful connection resets the reconnect interval, and what     *)
(* follows the loss of an established connection is a wait of the initial  *)
(* interval, however many attempts failed before the connection.           *)
C8_InitialWaitAfterLoss ==
    /\ pc = "receiving" => reconnect_interval = InitialInterval
    /\ \A i \in 1..Len(trace) :
          (trace[i].type = "lost" /\ i < Len(trace))
              => trace[i + 1] = Event("sleep", InitialInterval)

(* C9: connect() leaves its loop only with the run flag cleared, and what  *)
(* follows a failed attempt or a lost connection is the next attempt,      *)
(* unless the flag has been cleared by then.                               *)
C9_NeverGivesUp ==
    /\ pc \in {"sleeping", "done"} => ~should_run
    /\ \A i \in 1..Len(trace) :
          (trace[i].type \in {"fail", "lost"} /\ i < Len(trace))
              => \/ trace[i + 1].type = "attempt"
                 \/ ~should_run
    /\ \A i \in 1..Len(trace) : trace[i].type = "sleep" => ~should_run

(* connect() has returned after a failed attempt and a lost connection     *)
(* were each followed by a new attempt.                                    *)
C9_Witness ==
    /\ pc = "done"
    /\ \E i \in 1..(Len(trace) - 1) :
          trace[i].type = "fail" /\ trace[i + 1].type = "attempt"
    /\ \E i \in 1..(Len(trace) - 1) :
          trace[i].type = "lost" /\ trace[i + 1].type = "attempt"

(* C10: once stop() has cleared the run flag the collector receives no     *)
(* further frame, whatever it was doing when stop() was called.            *)
C10_NoFrameAfterStop ==
    [][~should_run => messages_received' = messages_received]_vars

-----------------------------------------------------------------------------
(* Claims about the message handler. *)

Truthy(job, field) == field \in DOMAIN job /\ job[field] # ""

(* C5: whatever the handler stores in normalized_jobs or passes to the     *)
(* comparator is the job normalization returned for that frame, with       *)
(* source, timestamp and job_id present and truthy; a frame whose          *)
(* normalization yields nothing reaches neither, only raw_messages.        *)
C5_ValidationIsTheGate ==
    /\ \A e \in normalized_jobs \cup handed :
          /\ e.id \in 1..Len(frames)
          /\ Normalize(frames[e.id]) = <<e.job>>
          /\ Truthy(e.job, "source")
          /\ Truthy(e.job, "timestamp")
          /\ Truthy(e.job, "job_id")
    /\ \A c \in Sources :
          handler[c].at = "store_normalized" =>
              /\ Normalize(frames[handler[c].id]) = <<handler[c].job>>
              /\ Truthy(handler[c].job, "source")
              /\ Truthy(handler[c].job, "timestamp")
              /\ Truthy(handler[c].job, "job_id")
    /\ \A i \in 1..Len(call_log) :
          \E e \in handed : call_log[i] = [e.job EXCEPT !.processed_at = call_log[i].processed_at]
    /\ \A id \in 1..Len(frames) :
          frames[id].kind # "notify" =>
              /\ \A e \in normalized_jobs \cup handed : e.id # id
              /\ \A c \in Sources :
                    handler[c] # Idle /\ handler[c].id = id => handler[c].at = "store_raw"
    /\ raw_messages \subseteq 1..Len(frames)

(* One frame went through to normalized_jobs and the comparator, and a     *)
(* frame without a job_id was handled to the end and is stored raw only.   *)
C5_Witness ==
    /\ \A c \in Sources : handler[c] = Idle
    /\ \E e \in normalized_jobs : e \in handed /\ call_log = <<[e.job EXCEPT !.processed_at = clock]>>
    /\ \E id \in raw_messages :
          /\ frames[id].kind = "map_error"
          /\ \A e \in normalized_jobs \cup handed : e.id # id

-----------------------------------------------------------------------------
(* The receive loop. *)

Started(c) == {hlog[i].n : i \in {j \in 1..Len(hlog) :
                                     hlog[j].feed = c /\ hlog[j].ev = "start"}}

JsonFrames(c) == {rx[c][i].n : i \in {j \in 1..Len(rx[c]) : rx[c][j].kind # "garbage"}}

(* C11: a frame that is not JSON, or a handler call that raises, does not  *)
(* end the receive loop: the loop ends only when the socket is closed, in  *)
(* a step that reads no frame and ends no handler call.  Every frame read  *)
(* is counted as received, a frame that is not JSON is never passed to the *)
(* handler, and every JSON frame read, one following a bad frame included, *)
(* is passed to the handler.                                               *)
C11_LoopSurvivesBadFrames ==
    /\ [](\A c \in Sources :
             /\ lp[c].messages_received = Len(rx[c])
             /\ Started(c) = JsonFrames(c))
    /\ [][\A c \in Sources :
             (lp[c].at # "closed" /\ lp'[c].at = "closed")
                 => (rx'[c] = rx[c] /\ hlog' = hlog)]_vars

C11_Witness ==
    \E c \in Sources :
        /\ Len(rx[c]) = 3
        /\ rx[c][1].kind = "garbage"
        /\ rx[c][2].kind = "bad"
        /\ rx[c][3].kind = "job"
        /\ LogEvent(c, 2, "raise") \in {hlog[i] : i \in 1..Len(hlog)}
        /\ LogEvent(c, 3, "end") \in {hlog[i] : i \in 1..Len(hlog)}
        /\ lp[c] = [at |-> "recv", messages_received |-> 3]

EventsOf(c) == SelectSeq(hlog, LAMBDA e : e.feed = c)

(* C12: within one feed the frames are handled one at a time and in the    *)
(* order they were read: at most one handler call of a feed is in flight,  *)
(* while it is in flight the feed's loop reads nothing, and the feed's     *)
(* handler events and process_job calls appear in the order of receipt.    *)
C12_OneFrameAtATimeInOrder ==
    \A c \in Sources :
        /\ Cardinality(inflight[c]) <= 1
        /\ inflight[c] # {} => lp[c].at = "handler"
        /\ \A i, j \in 1..Len(EventsOf(c)) :
               i < j => EventsOf(c)[i].n <= EventsOf(c)[j].n

C12_Witness ==
    \E c, d \in Sources :
        /\ c # d
        /\ Len(hlog) = 7
        /\ hlog[1] = LogEvent(c, 1, "start")
        /\ hlog[2] = LogEvent(d, 1, "start")
        /\ hlog[3] = LogEvent(c, 1, "process_job")
        /\ hlog[4] = LogEvent(c, 1, "end")
        /\ hlog[5] = LogEvent(c, 2, "start")
        /\ hlog[6] = LogEvent(c, 2, "process_job")
        /\ hlog[7] = LogEvent(c, 2, "end")
        /\ inflight[d] # {}

-----------------------------------------------------------------------------
(* The statistics calculator. *)

JobCount(c) == Len(by_service[c])

AgreementsOf(k) ==
    Cardinality({i \in 1..Len(job_agreements) : job_agreements[i].services = k})

HasSmallestCount(k, n) ==
    /\ \E c \in k : JobCount(c) = n
    /\ \A c \in k : n <= JobCount(c)

-----------------------------------------------------------------------------
(* The orchestrator and the API. *)

LastProcessed == call_log[Len(call_log)]

(* C14: before a comparator is injected /api/stats answers 503; once       *)
(* start() has run its API-server step, with a comparator that has         *)
(* processed a job, /api/stats answers with the snapshot, in which that    *)
(* job's feed has recent_job_count >= 1.                                   *)
C14_StatsServedAfterStart ==
    /\ tasks["api"] = "none" => StatsAnswer.status = 503
    /\ (tasks["api"] # "none" /\ call_log # <<>>) =>
           /\ StatsAnswer.status = 200
           /\ StatsAnswer.body.sources[LastProcessed.source].recent_job_count >= 1

-----------------------------------------------------------------------------
(* Retention. *)

(* C15: after a retention cleanup, each of the four collections holds      *)
(* exactly the documents that no cleanup so far found out of its window:   *)
(* every document older than a cutoff is gone and every other is kept.     *)
C15_CleanupRemovesExactlyOldDocuments ==
    \A n \in CollectionNames :
        collections[n] = {d \in inserted[n] : \A cutoff \in cutoffs : ~(d < cutoff)}


-----------------------------------------------------------------------------
(* The mempool.space collector and the attempt counter. *)

SubscribesOn(n) ==
    Cardinality({i \in 1..Len(subscribed) : subscribed[i].conn = n})

(* C17: on every connection whose receive loop was entered, the first one  *)
(* and every reconnection, mining.subscribe was sent exactly once.         *)
C17_SubscribeOnEveryConnection ==
    \A n \in entered : SubscribesOn(n) = 1

(* C20: connection_attempts equals the number of socket-open attempts made *)
(* so far, the attempts of the reconnections included.                     *)
C20_AttemptsCountEveryOpen ==
    connection_attempts = Opens


-----------------------------------------------------------------------------
(* The fallback mapping. *)

TextOf(v) == IF v.type = "null" THEN "" ELSE v.val

(* What the positional reading of a params array gives for the job fields; *)
(* merkle_from_any says whether params[4] is taken whatever its type.      *)
Positional(params, merkle_from_any) ==
    [job_id |-> IF Len(params) > 0 THEN params[1] ELSE Str(""),
     prev_block_hash |-> IF Len(params) > 1 THEN params[2] ELSE Str(""),
     coinbase_tx |-> IF Len(params) > 3
                     THEN Str(TextOf(params[3]) \o TextOf(params[4])) ELSE Str(""),
     merkle_branches |-> IF Len(params) > 4 /\ (merkle_from_any \/ params[5].type = "list")
                         THEN params[5] ELSE Lst("[]"),
     version |-> IF Len(params) > 5 THEN params[6] ELSE Str(""),
     bits |-> IF Len(params) > 6 THEN params[7] ELSE Str(""),
     time |-> IF Len(params) > 7 THEN params[8] ELSE Num("0"),
     clean_jobs |-> IF Len(params) > 8 THEN params[9] ELSE Bool("false"),
     height |-> Num("0")]

IsNotify == map_in.message.method = "mining.notify" /\ map_in.message.params_is_list

(* C18 as stated: every feed's fallback maps every mining.notify message   *)
(* positionally, params[4] to merkle_branches included.                    *)
C18_PositionalForEveryFeed ==
    (map_out # NotMapped /\ IsNotify) =>
        map_out = Positional(map_in.message.params, TRUE)

(* C18, amended: a mining.notify message is mapped positionally by the     *)
(* observer and mempool.space mappers, and by the stratum.work mapper when *)
(* the message has no job object; merkle_branches is params[4] for the     *)
(* observer mapper, and for the other two only when params[4] is a list.   *)
C18_PositionalUnlessJobObject ==
    (map_out # NotMapped /\ IsNotify
        /\ (map_in.feed = "stratum.work" => DOMAIN map_in.message.job = {})) =>
        map_out = Positional(map_in.message.params, map_in.feed = "miningpool.observer")

C18_Witness ==
    /\ map_out # NotMapped
    /\ map_in.feed = "stratum.work"
    /\ IsNotify
    /\ DOMAIN map_in.message.job = {}
    /\ Len(map_in.message.params) = 9
    /\ map_out.job_id = Str("job1")
    /\ map_out.coinbase_tx = Str("cb1cb2")
    /\ map_out.merkle_branches = Lst("[m1,m2]")
    /\ map_out.clean_jobs = Bool("true")


-----------------------------------------------------------------------------
(* Rejection of a job of an unknown feed. *)

(* C19: a process_job call with a job whose source is not one of the three *)
(* known feeds returns no matches and changes nothing of the comparator:   *)
(* the caches, the match history, the pools and heights sets, the          *)
(* counters and what the analyzers were given stay as they were.           *)
C19_UnknownSourceChangesNothing ==
    [][(last_call' # last_call /\ last_call'.source \notin Sources) =>
          /\ returned' = <<>>
          /\ UNCHANGED <<recent_jobs, job_matches, pools_seen, heights_seen,
                         processing_stats, call_log, analyzer_jobs>>]_vars

C19_Witness ==
    /\ last_call # NoCall
    /\ last_call.source \notin Sources
    /\ returned = <<>>
    /\ Len(call_log) = 2
    /\ job_matches # <<>>
    /\ processing_stats = [jobs_processed |-> 2, matches_found |-> 1]
    /\ \A a \in Analyzers : analyzer_jobs[a] = 2

-----------------------------------------------------------------------------
(* Claims about the matcher, the analyzers and the snapshot. *)

(* The positions of feed s's cache whose job scores at least the threshold *)
(* against job.                                                            *)
HitsIn(job, s) ==
    {i \in 1..Len(recent_jobs[s]) : Score(job, recent_jobs[s][i]) >= MatchThreshold}

(* The last process_job call accepted its job. *)
LastAccepted ==
    /\ Len(call_log) > 0
    /\ last_call.source = call_log[Len(call_log)].source

C22_FirstSourceByReceiptTime ==
    \A i \in 1..Len(timing_matches) :
        \A k \in 1..Len(timing_matches[i].matches) :
            LET m == timing_matches[i].matches[k]
            IN  /\ m.receipts[1] < m.receipts[2] => m.first_source = m.sources[1]
                /\ m.receipts[2] < m.receipts[1] => m.first_source = m.sources[2]
                /\ m.propagation_time = Abs(m.receipts[1] - m.receipts[2])

(* A job of the cache has been through a whole process_job call. *)
Completed(job) == \E i \in 1..Len(call_log) : call_log[i] = job

(* C23: the comparator's state is mutated to completion within one turn of *)
(* the event loop: whenever another collector's process_job or a           *)
(* get_statistics call of the statistics task or of a request runs, no     *)
(* process_job call is between its append and its end, and every cached    *)
(* job has been matched.                                                   *)
C23_ProcessJobInOneTurn ==
    /\ ~saw_partial
    /\ \A c \in Sources : in_process[c] = NoJob
    /\ \A s \in Sources : \A i \in 1..Len(recent_jobs[s]) :
           Completed(recent_jobs[s][i])
    /\ snapshot.status = 200 =>
           \A s \in Sources :
               snapshot.body.sources[s].recent_job_count
                   <= Cardinality({i \in 1..Len(call_log) : call_log[i].source = s})

(* The statistics task has read the comparator after a match was recorded, *)
(* and another handler is suspended in a database store.                   *)
C23_Witness ==
    /\ "stats" \in observers
    /\ job_matches # <<>>
    /\ snapshot.body.matches.total > 0
    /\ snapshot.status = 200
    /\ \E s \in Sources : snapshot.body.sources[s].recent_job_count > 0
    /\ \E c \in Sources : turn_handler[c] = "store_normalized"

(* The scenario of C24: two jobs of different feeds have been processed,   *)
(* within the time window, by a comparator that had empty caches.          *)
C24_Scenario ==
    /\ Len(call_log) = 2
    /\ call_log[1].source # call_log[2].source
    /\ call_log[2].processed_at - call_log[1].processed_at <= TimeWindow

(* C24 (as stated): in the scenario the score of either job against the    *)
(* other is the same, and exactly one match record was created, with the   *)
(* later-processed job as its primary job.                                 *)
C24_OneRecordWhicheverOrder ==
    C24_Scenario =>
        /\ Score(call_log[1], call_log[2]) = Score(call_log[2], call_log[1])
        /\ Len(job_matches) = 1
        /\ job_matches[1].primary_job = call_log[2]

(* C24 (as amended): in the scenario the score of either job against the   *)
(* other is the same; when that score reaches the threshold exactly one    *)
(* match record was created, with the later-processed job as its primary   *)
(* job and the earlier-processed one as its only match, and when it does   *)
(* not, none was created - in either order of processing.                  *)
C24_SameRecordsWhicheverOrder ==
    C24_Scenario =>
        /\ Score(call_log[1], call_log[2]) = Score(call_log[2], call_log[1])
        /\ IF Score(call_log[1], call_log[2]) >= MatchThreshold
           THEN /\ Len(job_matches) = 1
                /\ processing_stats.matches_found = 1
                /\ job_matches[1].primary_job = call_log[2]
                /\ job_matches[1].matches = <<call_log[1]>>
           ELSE /\ job_matches = <<>>
                /\ processing_stats.matches_found = 0

(* Two jobs of different feeds that differ in job_id and in height and     *)
(* share prev_block_hash and version have been matched.                    *)
C24_Witness ==
    /\ C24_Scenario
    /\ call_log[1].job_id # call_log[2].job_id
    /\ call_log[1].height = 0
    /\ call_log[2].height # 0
    /\ call_log[1].prev_block_hash = call_log[2].prev_block_hash
    /\ call_log[1].version = call_log[2].version
    /\ Len(job_matches) = 1
    /\ job_matches[1].primary_job = call_log[2]

(* /api/clients as it would answer from a snapshot. *)
ReportedActive(s) == ClientStatus(snapshot.body)[s].status = "active"

(* C25: at every get_statistics() call every job counted in a feed's       *)
(* recent_job_count was processed within the last time_window, so a feed   *)
(* is reported active only if it delivered a job within the last           *)
(* time_window - also after all feeds have been silent for longer.         *)
C25_CacheTimeBoundedAtRead ==
    snapshot.status = 200 =>
        \A s \in Sources :
            /\ snapshot.body.sources[s].recent_job_count = Len(snapshot.counted[s])
            /\ \A i \in 1..Len(snapshot.counted[s]) :
                   snapshot.counted[s][i].processed_at >= snapshot.at - TimeWindow
            /\ ReportedActive(s) =>
                   \E i \in 1..Len(call_log) :
                       /\ call_log[i].source = s
                       /\ call_log[i].processed_at >= snapshot.at - TimeWindow

(* C26: after every process_job call the live match window holds at most   *)
(* window_size match records and no match record created more than         *)
(* time_window ago.                                                        *)
C26_MatchWindowTrimmedByAge ==
    (Len(call_log) > 0 /\ call_log[Len(call_log)].processed_at = clock) =>
        /\ Len(job_matches) <= WindowSize
        /\ \A i \in 1..Len(job_matches) :
               job_matches[i].timestamp >= clock - TimeWindow

(* C27: in every get_statistics() snapshot the total of the matches block  *)
(* equals the counter matches_found, the number of match records created   *)
(* since the comparator was constructed.                                   *)
C27_TotalIsMatchesFound ==
    snapshot.status = 200 =>
        snapshot.body.matches.total = snapshot.body.processing.matches_found

(* C28: once stop() has closed the database connection, no message handler *)
(* - also one that was suspended in a database call when stop() began -    *)
(* issues a further database store or a further comparator update.         *)
C28_NoHandlerWorkAfterDbClosed ==
    late_ops = {}

(* The sum of the numerators of the percentages of the feeds in S. *)
RECURSIVE SumOfPercentages(_)
SumOfPercentages(S) ==
    IF S = {} THEN 0
    ELSE LET s == CHOOSE x \in S : TRUE
         IN  FirstProviderStats[s].percentage[1] + SumOfPercentages(S \ {s})

(* C29: whenever the timing analyzer holds at least one match record, the  *)
(* first-provider percentages of all feeds sum to 100 and none exceeds     *)
(* 100, also when a match record carries two match entries.                *)
C29_FirstProviderSharesSumTo100 ==
    Len(timing_matches) > 0 =>
        /\ SumOfPercentages(DOMAIN FirstProviderStats) = 100 * Len(timing_matches)
        /\ \A s \in DOMAIN FirstProviderStats :
               FirstProviderStats[s].percentage[1]
                   <= 100 * FirstProviderStats[s].percentage[2]

(* The feeds whose jobs all carry the target region of their collector. *)
RegionsFromCollector ==
    \A i \in 1..Len(tframes) :
        tframes[i].target_region = TargetRegion[tframes[i].service_name]

(* C30: when every job of a feed carries the one target region of its      *)
(* collector, each feed that delivered a job has exactly one region        *)
(* bucket and the per-region-pair propagation statistics stay empty.       *)
C30_NoCrossRegionSample ==
    RegionsFromCollector =>
        /\ \A c \in Sources :
               /\ Cardinality(DOMAIN region_jobs[c]) <= 1
               /\ DOMAIN region_jobs[c] = service_regions[c]
               /\ (\E i \in 1..Len(call_log) : call_log[i].source = c) =>
                      DOMAIN region_jobs[c] = {TargetRegion[c]}
        /\ \A p \in RegionPairs : propagation_by_region[p] = <<>>

(* A feed has delivered two jobs with the same job_id and mining_pool, and *)
(* another feed, of another region, the same job.                          *)
C30_Witness ==
    /\ \E i, k \in 1..Len(call_log) :
          /\ i < k
          /\ call_log[i].source = call_log[k].source
          /\ call_log[i].job_id = call_log[k].job_id
          /\ call_log[i].mining_pool = call_log[k].mining_pool
          /\ \E n \in 1..Len(call_log) :
                /\ TargetRegion[call_log[n].source] # TargetRegion[call_log[i].source]
                /\ call_log[n].job_id = call_log[i].job_id
          /\ DOMAIN region_jobs[call_log[i].source]
                = {TargetRegion[call_log[i].source]}
    /\ \A p \in RegionPairs : propagation_by_region[p] = <<>>

====
